---------------------------- MODULE Spec2Model ----------------------------
(***************************************************************************)
(* Verification model of the kettlebell VBT application (src/app.js).      *)
(*                                                                         *)
(* Units.  Landmark coordinates are pixel rows/columns on a canvas that is *)
(* canvasHeight pixels tall (the source keeps them normalised: value =     *)
(* pixel / canvasHeight), so every threshold t of the source that is given *)
(* as a fraction of the frame is compared as  100 * d  against             *)
(* t(in hundredths) * canvasHeight.  Time is in milliseconds, velocity in  *)
(* mm/s.  Floating point rounding is replaced by rounding to the nearest   *)
(* unit (RoundDiv).                                                        *)
(*                                                                         *)
(* A landmark is <<x, y>>; a missing landmark (undefined in the source) is *)
(* the empty tuple.                                                        *)
(***************************************************************************)
EXTENDS Integers, Sequences, FiniteSets, TLC

VARIABLES
    state,            \* VBTStateMachine.state
    calibrationData,  \* VBTStateMachine.calibrationData
    result,           \* value returned by the last VBTStateMachine.update call
    threw,            \* TRUE iff the last call ended with an uncaught TypeError
    calSys,           \* CalibrationSystem.state
    obs,              \* observer: what the calls made so far showed
    app,              \* first application: SetTimingTracker and run flag
    chain             \* position in a scripted posture chain

vars == <<state, calibrationData, result, threw, calSys, obs, app, chain>>

-----------------------------------------------------------------------------
(* Arithmetic helpers *)

Abs(a) == IF a < 0 THEN -a ELSE a

Max(a, b) == IF a > b THEN a ELSE b

Min(a, b) == IF a < b THEN a ELSE b

\* a / b rounded to the nearest integer (b > 0), halves away from zero
RoundDiv(a, b) == IF a >= 0 THEN (2 * a + b) \div (2 * b)
                  ELSE -((2 * (-a) + b) \div (2 * b))

\* the element of a one-element set: Only({F(x) : x \in {e}}) is F(e) with e
\* evaluated once
Only(S) == CHOOSE x \in S : TRUE

Null == << >>

IsNull(p) == p = Null

-----------------------------------------------------------------------------
(* Bounds of the model *)

\* height of the canvas in pixels (constructor argument of VBTStateMachine)
canvasHeight == 10

\* frames a hold counter may run past its threshold
HoldPast == 1

-----------------------------------------------------------------------------
(* VBTStateMachine.THRESHOLDS, second definition (src/app.js 2600-2628)    *)

RACK_ELBOW_MAX == 20
LOCKOUT_ELBOW_MIN == 160
RACK_HOLD_FRAMES == 30
OVERHEAD_HOLD_FRAMES == 3
\* fractions of the frame, in hundredths
WRIST_NEAR_SHOULDER == 8
WRIST_OVERHEAD == 5
SNATCH_ARM_EXTENSION_RATIO == 40
SNATCH_SETTLING_FRAMES == 2
\* smoothing factors, in hundredths
VELOCITY_ALPHA == 15
POSITION_ALPHA == 30
\* mm/s
MAX_REALISTIC_VELOCITY == 8000
ZERO_BAND == 100
\* ms
MIN_DT == 16
MAX_DT == 100
RESET_DURATION_FRAMES == 30
\* frames of the automatic pose calibration (literal 30 in update)
POSE_CALIBRATION_FRAMES == 30
\* tolerance of the neutral wrist offset, hundredths (literal 0.10 in update)
HOME_TOLERANCE == 10
\* upright torso fraction, hundredths (literal 0.85 in update)
TALL_FRACTION == 85
\* vertical wrist difference that locks a side, hundredths (literal 0.1)
SIDE_LOCK_DIFF == 10
\* TORSO_METERS = 0.45, in centimetres
TORSO_CM == 45

Sides == {"LEFT", "RIGHT"}

Landmarks == {"WRIST", "SHOULDER", "HIP", "KNEE", "NOSE", "ANKLE", "ELBOW"}

NoResult == [type |-> "null", velocity |-> 0, quality |-> "null"]

RepResult(t, v, q) == [type |-> t, velocity |-> v, quality |-> q]

EmptyLandmarks == [s \in Sides |-> [l \in Landmarks |-> Null]]


-----------------------------------------------------------------------------
(* VBTStateMachine, second definition (src/app.js 2594-3193)               *)

\* reset(): the state object literal.  calibration null is 0 (both falsy);
\* lastWristPos is Null or [x, y, t] with t the time elapsed since that
\* sample was taken; lastTimestamp is only ever written and is left out.
FreshState ==
    [lockedSide |-> "unknown", phase |-> "IDLE",
     startedFromRack |-> FALSE, startedBelowHip |-> FALSE,
     startedFromOverhead |-> FALSE,
     reachedRack |-> FALSE, reachedOverhead |-> FALSE,
     reachedLockout |-> FALSE, reachedSwingHeight |-> FALSE,
     elbowFoldedBeforeRack |-> FALSE, wentBelowHip |-> FALSE,
     everWentOverhead |-> FALSE,
     rackHoldFrames |-> 0, lockoutHoldFrames |-> 0,
     overheadHoldFrames |-> 0, settlingFrames |-> 0,
     currentRepPeak |-> 0, smoothedVy |-> 0,
     lastWristPos |-> Null, calibration |-> 0, resetProgress |-> 0,
     pendingMovement |-> "null",
     smoothedLandmarks |-> EmptyLandmarks]

\* constructor: calibrationData literal
FreshCalibrationData ==
    [isCalibrated |-> FALSE, framesCaptured |-> 0,
     neutralWristOffset |-> 0, maxTorsoLength |-> 0]

\* calculateElbowAngle: the angle is carried as its cosine, the pair
\* (dot, |toShoulder|^2 * |toWrist|^2); a zero magnitude gives NaN.
calculateElbowAngle(shoulder, elbow, wrist) ==
    LET sx == shoulder[1] - elbow[1]
        sy == shoulder[2] - elbow[2]
        wx == wrist[1] - elbow[1]
        wy == wrist[2] - elbow[2]
    IN  [dot |-> sx * wx + sy * wy,
         mag2 |-> (sx * sx + sy * sy) * (wx * wx + wy * wy)]

\* cos^2 of a threshold angle, in thousandths (cos^2 20 = cos^2 160 = 0.883)
CosSq(deg) == IF deg = 20 \/ deg = 160 THEN 883 ELSE 0

\* elbowAngle < deg, for deg < 90: cos(angle) > cos(deg).  NaN compares false.
AngleBelow(angle, deg) ==
    /\ angle.mag2 > 0
    /\ angle.dot > 0
    /\ 1000 * angle.dot * angle.dot > CosSq(deg) * angle.mag2

\* elbowAngle > deg, for deg > 90: cos(angle) < cos(deg).  NaN compares false.
AngleAbove(angle, deg) ==
    /\ angle.mag2 > 0
    /\ angle.dot < 0
    /\ 1000 * angle.dot * angle.dot > CosSq(deg) * angle.mag2

\* isWristOverhead; armLengthPixels is 0 when the CalibrationSystem is absent,
\* not complete, or has no arm length (then only the nose fallback applies).
isWristOverhead(wrist, shoulder, nose, armLengthPixels) ==
    \/ /\ armLengthPixels > 0
       /\ 100 * (shoulder[2] - wrist[2]) > SNATCH_ARM_EXTENSION_RATIO * armLengthPixels
    \/ 100 * wrist[2] < 100 * nose[2] - WRIST_OVERHEAD * canvasHeight

\* isAtSwingHeight: aboveHip && notOverhead (atOrBelowNose is computed but unused)
isAtSwingHeight(wrist, hip, shoulder, nose, armLengthPixels) ==
    /\ wrist[2] < hip[2]
    /\ ~isWristOverhead(wrist, shoulder, nose, armLengthPixels)

\* prev + alpha * (raw - prev), the step rounded up in magnitude to a whole
\* pixel: like the source's value, the smoothed coordinate moves toward the
\* raw one on every frame and comes to rest only on it.
Smooth(raw, prev) ==
    LET d == raw - prev
        step == (POSITION_ALPHA * Abs(d) + 99) \div 100
    IN  IF d >= 0 THEN prev + step ELSE prev - step

\* smoothLandmarks: a landmark missing from the raw pose is missing from the
\* new smoothed object, which replaces state.smoothedLandmarks.
smoothLandmarks(prevSmoothed, rawPose) ==
    [s \in Sides |-> [l \in Landmarks |->
        IF IsNull(rawPose[s]) THEN Null
        ELSE IF IsNull(rawPose[s][l]) THEN Null
        ELSE IF IsNull(prevSmoothed[s][l]) THEN rawPose[s][l]
        ELSE <<Smooth(rawPose[s][l][1], prevSmoothed[s][l][1]),
               Smooth(rawPose[s][l][2], prevSmoothed[s][l][2])>>]]

\* calculateVelocity without the clamp of vy
calculateVelocityUnclamped(st, wrist) ==
    LET newPos == [x |-> wrist[1], y |-> wrist[2], t |-> 0]
        dt == st.lastWristPos.t
    IN  IF IsNull(st.lastWristPos) \/ st.calibration = 0
        THEN [lastWristPos |-> newPos, vy |-> 0]
        ELSE IF dt < MIN_DT \/ dt > MAX_DT
        THEN [lastWristPos |-> newPos, vy |-> 0]
        ELSE LET perPx == RoundDiv(1000000000, st.calibration * dt)
                 vx == (wrist[1] - st.lastWristPos.x) * perPx
                 vy == (wrist[2] - st.lastWristPos.y) * perPx
                 still == /\ Abs(vx) < ZERO_BAND
                          /\ Abs(vy) < ZERO_BAND
                          /\ vx * vx + vy * vy < ZERO_BAND * ZERO_BAND
             IN  [lastWristPos |-> newPos,
                  vy |-> IF still THEN 0 ELSE vy]

\* calculateVelocity: returns the new lastWristPos and vy (mm/s).  The time
\* since lastWristPos was taken is lastWristPos.t; calibration is in pixels
\* per kilometre.
calculateVelocity(st, wrist) ==
    LET newPos == [x |-> wrist[1], y |-> wrist[2], t |-> 0]
        dt == st.lastWristPos.t
    IN  IF IsNull(st.lastWristPos) \/ st.calibration = 0
        THEN [lastWristPos |-> newPos, vy |-> 0]
        ELSE IF dt < MIN_DT \/ dt > MAX_DT
        THEN [lastWristPos |-> newPos, vy |-> 0]
        ELSE LET perPx == RoundDiv(1000000000, st.calibration * dt)
                 vx == (wrist[1] - st.lastWristPos.x) * perPx
                 vy == (wrist[2] - st.lastWristPos.y) * perPx
                 still == /\ Abs(vx) < ZERO_BAND
                          /\ Abs(vy) < ZERO_BAND
                          /\ vx * vx + vy * vy < ZERO_BAND * ZERO_BAND
                 vy0 == IF still THEN 0 ELSE vy
             IN  [lastWristPos |-> newPos,
                  vy |-> Min(Max(vy0, -MAX_REALISTIC_VELOCITY),
                             MAX_REALISTIC_VELOCITY)]

clearMovementFlags(st) ==
    [st EXCEPT !.reachedRack = FALSE, !.reachedOverhead = FALSE,
               !.reachedLockout = FALSE, !.reachedSwingHeight = FALSE,
               !.elbowFoldedBeforeRack = FALSE, !.wentBelowHip = FALSE,
               !.everWentOverhead = FALSE, !.rackHoldFrames = 0,
               !.lockoutHoldFrames = 0, !.currentRepPeak = 0,
               !.pendingMovement = "null"]

resetForSnatch(st) ==
    clearMovementFlags([st EXCEPT !.phase = "SETTLING", !.settlingFrames = 0,
                                  !.startedFromRack = FALSE,
                                  !.startedBelowHip = FALSE,
                                  !.startedFromOverhead = FALSE])

\* variant: the starting flag of the rep that ended is left set
resetForNextRepKeepsStart(st, inRack) ==
    clearMovementFlags([st EXCEPT !.phase = "IDLE",
                                  !.startedFromRack = inRack \/ @,
                                  !.startedBelowHip = ~inRack \/ @,
                                  !.startedFromOverhead = FALSE,
                                  !.rackHoldFrames =
                                      IF inRack THEN RACK_HOLD_FRAMES ELSE 0,
                                  !.overheadHoldFrames = 0])

\* variant: the phase is not set back to IDLE
resetForNextRepKeepsPhase(st, inRack) ==
    clearMovementFlags([st EXCEPT !.startedFromRack = inRack,
                                  !.startedBelowHip = ~inRack,
                                  !.startedFromOverhead = FALSE,
                                  !.overheadHoldFrames = 0])

resetForNextRep(st, inRack) ==
    clearMovementFlags([st EXCEPT !.phase = "IDLE",
                                  !.startedFromRack = inRack,
                                  !.startedBelowHip = ~inRack,
                                  !.startedFromOverhead = FALSE,
                                  !.rackHoldFrames =
                                      IF inRack THEN RACK_HOLD_FRAMES ELSE 0,
                                  !.overheadHoldFrames = 0])


\* What one update call yields: the new state and calibrationData, the
\* returned event, whether it threw, and the posture tests it evaluated
\* (seen.classified is FALSE when the call ended before the phase logic).
NoPosture ==
    [classified |-> FALSE, wristBelowHip |-> FALSE, wristOverhead |-> FALSE,
     atSwingHeight |-> FALSE, inRackPosition |-> FALSE, inLockout |-> FALSE,
     elbowFolded |-> FALSE]

Outcome(st, cd, res, th, seen) ==
    [state |-> st, calibrationData |-> cd, result |-> res, threw |-> th,
     seen |-> seen]

\* SETTLING that lasts one frame less
SettlingShort(st, P) ==
    LET s1 == [st EXCEPT !.settlingFrames = @ + 1]
    IN  IF s1.settlingFrames >= SNATCH_SETTLING_FRAMES - 1
        THEN IF P.inLockout
             THEN [s1 EXCEPT !.phase = "IDLE", !.startedFromOverhead = TRUE,
                             !.overheadHoldFrames = OVERHEAD_HOLD_FRAMES]
             ELSE IF P.wristBelowHip
             THEN [s1 EXCEPT !.phase = "IDLE", !.startedBelowHip = TRUE]
             ELSE [s1 EXCEPT !.phase = "IDLE"]
        ELSE s1

\* update, PHASE: SETTLING
Settling(st, P) ==
    LET s1 == [st EXCEPT !.settlingFrames = @ + 1]
    IN  IF s1.settlingFrames >= SNATCH_SETTLING_FRAMES
        THEN IF P.inLockout
             THEN [s1 EXCEPT !.phase = "IDLE", !.startedFromOverhead = TRUE,
                             !.overheadHoldFrames = OVERHEAD_HOLD_FRAMES]
             ELSE IF P.wristBelowHip
             THEN [s1 EXCEPT !.phase = "IDLE", !.startedBelowHip = TRUE]
             ELSE [s1 EXCEPT !.phase = "IDLE"]
        ELSE s1

\* variant: a wrist below the hip is not taken as a starting position
IdleDetectNoBelowHip(st, P) ==
    IF P.inLockout
    THEN LET s1 == [st EXCEPT !.overheadHoldFrames = @ + 1]
         IN  IF s1.overheadHoldFrames >= OVERHEAD_HOLD_FRAMES
             THEN [s1 EXCEPT !.startedFromOverhead = TRUE,
                             !.startedFromRack = FALSE,
                             !.startedBelowHip = FALSE]
             ELSE s1
    ELSE IF P.inRackPosition
    THEN LET s1 == [st EXCEPT !.rackHoldFrames = @ + 1,
                              !.overheadHoldFrames = 0]
         IN  IF s1.rackHoldFrames >= RACK_HOLD_FRAMES
             THEN [s1 EXCEPT !.startedFromRack = TRUE,
                             !.startedFromOverhead = FALSE,
                             !.startedBelowHip = FALSE]
             ELSE s1
    ELSE st

\* update, PHASE: IDLE, detection of the starting position
IdleDetect(st, P) ==
    IF P.inLockout
    THEN LET s1 == [st EXCEPT !.overheadHoldFrames = @ + 1]
         IN  IF s1.overheadHoldFrames >= OVERHEAD_HOLD_FRAMES
             THEN [s1 EXCEPT !.startedFromOverhead = TRUE,
                             !.startedFromRack = FALSE,
                             !.startedBelowHip = FALSE]
             ELSE s1
    ELSE IF P.inRackPosition
    THEN LET s1 == [st EXCEPT !.rackHoldFrames = @ + 1,
                              !.overheadHoldFrames = 0]
         IN  IF s1.rackHoldFrames >= RACK_HOLD_FRAMES
             THEN [s1 EXCEPT !.startedFromRack = TRUE,
                             !.startedFromOverhead = FALSE,
                             !.startedBelowHip = FALSE]
             ELSE s1
    ELSE IF P.wristBelowHip
    THEN [st EXCEPT !.rackHoldFrames = 0, !.overheadHoldFrames = 0,
                    !.startedFromRack = FALSE, !.startedFromOverhead = FALSE,
                    !.startedBelowHip = TRUE]
    ELSE st

\* update, PHASE: IDLE, transition to MOVING
Idle(st, P) ==
    LET s1 == IdleDetect(st, P)
    IN  IF s1.startedFromOverhead /\ ~P.inLockout
        THEN clearMovementFlags([s1 EXCEPT !.phase = "MOVING"])
        ELSE IF s1.startedFromRack /\ ~P.inRackPosition
        THEN clearMovementFlags([s1 EXCEPT !.phase = "MOVING"])
        ELSE IF s1.startedBelowHip /\ ~P.wristBelowHip
        THEN clearMovementFlags([s1 EXCEPT !.phase = "MOVING"])
        ELSE s1

\* variant: the overhead flags are never set
MovingTrackNoOverhead(st, P) ==
    LET s1 == [st EXCEPT !.currentRepPeak = Max(@, Abs(st.smoothedVy))]
        s2 == IF P.elbowFolded /\ ~s1.reachedRack
              THEN [s1 EXCEPT !.elbowFoldedBeforeRack = TRUE] ELSE s1
        s3 == IF P.wristBelowHip
              THEN [s2 EXCEPT !.wentBelowHip = TRUE] ELSE s2
        s5 == IF P.atSwingHeight /\ ~s3.everWentOverhead
              THEN [s3 EXCEPT !.reachedSwingHeight = TRUE] ELSE s3
        s6 == IF P.inLockout
              THEN [s5 EXCEPT !.reachedLockout = TRUE,
                              !.lockoutHoldFrames = @ + 1]
              ELSE [s5 EXCEPT !.lockoutHoldFrames = 0]
    IN  IF P.inRackPosition
        THEN [s6 EXCEPT !.reachedRack = TRUE, !.rackHoldFrames = @ + 1]
        ELSE [s6 EXCEPT !.rackHoldFrames = 0]

\* variant: the rack is tracked before the fold test, so the fold counts
\* only on a frame before the first one in the rack
MovingTrackRackFirst(st, P) ==
    LET s0 == [st EXCEPT !.currentRepPeak = Max(@, Abs(st.smoothedVy))]
        s1 == IF P.inRackPosition
              THEN [s0 EXCEPT !.reachedRack = TRUE, !.rackHoldFrames = @ + 1]
              ELSE [s0 EXCEPT !.rackHoldFrames = 0]
        s2 == IF P.elbowFolded /\ ~s1.reachedRack
              THEN [s1 EXCEPT !.elbowFoldedBeforeRack = TRUE] ELSE s1
        s3 == IF P.wristBelowHip
              THEN [s2 EXCEPT !.wentBelowHip = TRUE] ELSE s2
        s4 == IF P.wristOverhead
              THEN [s3 EXCEPT !.reachedOverhead = TRUE,
                              !.everWentOverhead = TRUE] ELSE s3
        s5 == IF P.atSwingHeight /\ ~s4.everWentOverhead
              THEN [s4 EXCEPT !.reachedSwingHeight = TRUE] ELSE s4
    IN  IF P.inLockout
        THEN [s5 EXCEPT !.reachedLockout = TRUE, !.lockoutHoldFrames = @ + 1]
        ELSE [s5 EXCEPT !.lockoutHoldFrames = 0]

\* update, PHASE: MOVING, peak and position flags
MovingTrack(st, P) ==
    LET s1 == [st EXCEPT !.currentRepPeak = Max(@, Abs(st.smoothedVy))]
        s2 == IF P.elbowFolded /\ ~s1.reachedRack
              THEN [s1 EXCEPT !.elbowFoldedBeforeRack = TRUE] ELSE s1
        s3 == IF P.wristBelowHip
              THEN [s2 EXCEPT !.wentBelowHip = TRUE] ELSE s2
        s4 == IF P.wristOverhead
              THEN [s3 EXCEPT !.reachedOverhead = TRUE,
                              !.everWentOverhead = TRUE] ELSE s3
        s5 == IF P.atSwingHeight /\ ~s4.everWentOverhead
              THEN [s4 EXCEPT !.reachedSwingHeight = TRUE] ELSE s4
        s6 == IF P.inLockout
              THEN [s5 EXCEPT !.reachedLockout = TRUE,
                              !.lockoutHoldFrames = @ + 1]
              ELSE [s5 EXCEPT !.lockoutHoldFrames = 0]
    IN  IF P.inRackPosition
        THEN [s6 EXCEPT !.reachedRack = TRUE, !.rackHoldFrames = @ + 1]
        ELSE [s6 EXCEPT !.rackHoldFrames = 0]

\* update, PHASE: MOVING, movement completion checks in priority order
MovingDecide(s, P) ==
        IF s.startedBelowHip /\ s.reachedOverhead /\ s.reachedLockout
        THEN [state |-> [s EXCEPT !.phase = "RETURNING",
                                  !.pendingMovement = "SNATCH"],
              result |-> NoResult]
        ELSE IF s.startedFromOverhead /\ s.wentBelowHip /\ s.reachedLockout
        THEN [state |-> [s EXCEPT !.phase = "RETURNING",
                                  !.pendingMovement = "SNATCH"],
              result |-> NoResult]
        ELSE IF s.startedFromRack /\ s.reachedLockout /\ ~s.wentBelowHip
        THEN [state |-> [s EXCEPT !.phase = "RETURNING",
                                  !.pendingMovement = "PRESS"],
              result |-> NoResult]
        ELSE IF /\ s.startedBelowHip /\ s.elbowFoldedBeforeRack
                /\ s.reachedRack /\ s.rackHoldFrames >= RACK_HOLD_FRAMES
        THEN [state |-> resetForNextRep(s, TRUE),
              result |-> RepResult("CLEAN", s.currentRepPeak, "null")]
        ELSE IF /\ s.startedFromRack /\ s.wentBelowHip
                /\ s.reachedRack /\ s.rackHoldFrames >= RACK_HOLD_FRAMES
        THEN [state |-> resetForNextRep(s, TRUE),
              result |-> RepResult("CLEAN", s.currentRepPeak, "null")]
        ELSE IF /\ s.startedBelowHip /\ s.reachedOverhead
                /\ ~s.reachedLockout /\ P.wristBelowHip
        THEN [state |-> resetForSnatch(s),
              result |-> RepResult("SNATCH", s.currentRepPeak, "BAD_FORM")]
        ELSE IF /\ s.startedFromOverhead /\ s.wentBelowHip
                /\ s.reachedOverhead /\ ~s.reachedLockout /\ P.wristBelowHip
        THEN [state |-> resetForSnatch(s),
              result |-> RepResult("SNATCH", s.currentRepPeak, "BAD_FORM")]
        ELSE IF /\ s.startedBelowHip /\ s.reachedSwingHeight
                /\ ~s.everWentOverhead /\ P.wristBelowHip
        THEN [state |-> resetForNextRep(s, FALSE),
              result |-> RepResult("SWING", s.currentRepPeak, "null")]
        ELSE [state |-> s, result |-> NoResult]

\* update, PHASE: MOVING
Moving(st, P) == Only({MovingDecide(s, P) : s \in {MovingTrack(st, P)}})

\* variant: the snatch completed from RETURNING is flagged as bad form
ReturningFlagsSnatch(st, P) ==
    LET s == [st EXCEPT !.currentRepPeak = Max(@, Abs(st.smoothedVy))]
    IN  IF s.pendingMovement = "PRESS" /\ P.inRackPosition
        THEN LET s1 == [s EXCEPT !.rackHoldFrames = @ + 1]
             IN  IF s1.rackHoldFrames >= RACK_HOLD_FRAMES
                 THEN [state |-> resetForNextRep(s1, TRUE),
                       result |-> RepResult("PRESS", s1.currentRepPeak, "null")]
                 ELSE [state |-> s1, result |-> NoResult]
        ELSE IF s.pendingMovement = "SNATCH" /\ P.wristBelowHip
        THEN [state |-> resetForSnatch(s),
              result |-> RepResult("SNATCH", s.currentRepPeak, "BAD_FORM")]
        ELSE [state |-> s, result |-> NoResult]

\* update, PHASE: RETURNING
Returning(st, P) ==
    LET s == [st EXCEPT !.currentRepPeak = Max(@, Abs(st.smoothedVy))]
    IN  IF s.pendingMovement = "PRESS" /\ P.inRackPosition
        THEN LET s1 == [s EXCEPT !.rackHoldFrames = @ + 1]
             IN  IF s1.rackHoldFrames >= RACK_HOLD_FRAMES
                 THEN [state |-> resetForNextRep(s1, TRUE),
                       result |-> RepResult("PRESS", s1.currentRepPeak, "null")]
                 ELSE [state |-> s1, result |-> NoResult]
        ELSE IF s.pendingMovement = "SNATCH" /\ P.wristBelowHip
        THEN [state |-> resetForSnatch(s),
              result |-> RepResult("SNATCH", s.currentRepPeak, "null")]
        ELSE [state |-> s, result |-> NoResult]

\* update: the phase dispatch (SETTLING returns first, then IDLE / MOVING /
\* RETURNING as an if - else if chain)
PhaseStep(st, P) ==
    IF st.phase = "SETTLING"
    THEN [state |-> Settling(st, P), result |-> NoResult]
    ELSE IF st.phase = "IDLE"
    THEN [state |-> Idle(st, P), result |-> NoResult]
    ELSE IF st.phase = "MOVING" THEN Moving(st, P)
    ELSE IF st.phase = "RETURNING" THEN Returning(st, P)
    ELSE [state |-> st, result |-> NoResult]


-----------------------------------------------------------------------------
(* CalibrationSystem accessors used by the engine (src/app.js 894-929).    *)
(* Lengths are in hundredths of a centimetre, pixelToCmRatio in hundredths *)
(* of a centimetre per pixel; null is 0 (both falsy).                      *)

isComplete(cs) == cs.phase = "COMPLETE"

\* 100 / pixelToCmRatio px per metre, here in pixels per kilometre
getPixelsPerMeter(cs) ==
    IF cs.pixelToCmRatio = 0 THEN 0
    ELSE RoundDiv(10000000, cs.pixelToCmRatio)

getArmLengthCm(cs) ==
    IF cs.bodySegments.upperArm = 0 \/ cs.bodySegments.forearm = 0 THEN 0
    ELSE cs.bodySegments.upperArm + cs.bodySegments.forearm

getArmLengthPixels(cs) ==
    IF getArmLengthCm(cs) = 0 \/ cs.pixelToCmRatio = 0 THEN 0
    ELSE RoundDiv(getArmLengthCm(cs), cs.pixelToCmRatio)

-----------------------------------------------------------------------------
(* VBTStateMachine.update, second definition (src/app.js 2813-3132)        *)

\* the time dt since the previous call, added to the age of lastWristPos
\* (the source keeps absolute timestamps; only their difference is read)
Aged(st, dt) ==
    IF IsNull(st.lastWristPos) THEN st
    ELSE [st EXCEPT !.lastWristPos.t = Min(@ + dt, MAX_DT + 1)]

\* arm length the overhead test may use: calibrationSystem && isComplete()
ArmLengthFor(cs) == IF isComplete(cs) THEN getArmLengthPixels(cs) ELSE 0

\* update, "Calculate current positions": the posture tests on the locked
\* side's smoothed landmarks
PostureTests(wrist, elbow, shoulder, hip, nose, arm) ==
    LET elbowAngle == calculateElbowAngle(shoulder, elbow, wrist)
        wristNearShoulder ==
            100 * Abs(wrist[2] - shoulder[2])
                < WRIST_NEAR_SHOULDER * canvasHeight
        wristOverhead == isWristOverhead(wrist, shoulder, nose, arm)
    IN  [classified |-> TRUE,
         wristBelowHip |-> wrist[2] > hip[2],
         wristOverhead |-> wristOverhead,
         atSwingHeight |-> isAtSwingHeight(wrist, hip, shoulder, nose, arm),
         inRackPosition |->
             AngleBelow(elbowAngle, RACK_ELBOW_MAX) /\ wristNearShoulder,
         inLockout |->
             AngleAbove(elbowAngle, LOCKOUT_ELBOW_MIN) /\ wristOverhead,
         elbowFolded |-> AngleBelow(elbowAngle, RACK_ELBOW_MAX)]

\* variant: the new sample is added to the filtered velocity, which does
\* not decay
VelocityStepAccumulates(st, wrist) ==
    LET vel == calculateVelocity(st, wrist)
    IN  [st EXCEPT !.lastWristPos = vel.lastWristPos,
                   !.smoothedVy =
                       RoundDiv(VELOCITY_ALPHA * vel.vy + 100 * @, 100)]

\* variant: a frame with a rejected interval is unreliable for the hold
\* counters as well
VelocityStepDropsHold(st, wrist) ==
    LET vel == calculateVelocity(st, wrist)
        dt == st.lastWristPos.t
        rejected == /\ ~IsNull(st.lastWristPos)
                    /\ st.calibration # 0
                    /\ (dt < MIN_DT \/ dt > MAX_DT)
    IN  [st EXCEPT !.lastWristPos = vel.lastWristPos,
                   !.smoothedVy =
                       RoundDiv(VELOCITY_ALPHA * vel.vy
                                  + (100 - VELOCITY_ALPHA) * @, 100),
                   !.rackHoldFrames = IF rejected THEN 0 ELSE @,
                   !.overheadHoldFrames = IF rejected THEN 0 ELSE @]

\* update, "Calculate velocity": calculateVelocity and the smoothing of vy
VelocityStep(st, wrist) ==
    LET vel == calculateVelocity(st, wrist)
    IN  [st EXCEPT !.lastWristPos = vel.lastWristPos,
                   !.smoothedVy =
                       RoundDiv(VELOCITY_ALPHA * vel.vy
                                  + (100 - VELOCITY_ALPHA) * @, 100)]

\* update, from "Calculate current positions" to the end.  A missing
\* shoulder or elbow throws in calculateElbowAngle, a missing nose in the
\* fallback test of isWristOverhead.
Classify(st, cd, cs, sm) ==
    LET side == st.lockedSide
        wrist == sm[side].WRIST
        elbow == sm[side].ELBOW
        shoulder == sm[side].SHOULDER
        hip == sm[side].HIP
        nose == sm[side].NOSE
        arm == ArmLengthFor(cs)
    IN  IF IsNull(shoulder) \/ IsNull(elbow)
        THEN Outcome(st, cd, NoResult, TRUE, NoPosture)
        ELSE IF /\ IsNull(nose)
                /\ ~(arm > 0 /\ 100 * (shoulder[2] - wrist[2])
                                  > SNATCH_ARM_EXTENSION_RATIO * arm)
        THEN Outcome(st, cd, NoResult, TRUE, NoPosture)
        ELSE Only({Only({Outcome(step.state, cd, step.result, FALSE, P) :
                         step \in {PhaseStep(VelocityStep(st, wrist), P)}}) :
                   P \in {PostureTests(wrist, elbow, shoulder, hip,
                                        IF IsNull(nose) THEN wrist ELSE nose,
                                        arm)}})

\* variant: the side is chosen again on every frame the wrists differ
LockAndClassifyRelock(st, cd, cs, sm) ==
    LET ly == sm.LEFT.WRIST[2]
        ry == sm.RIGHT.WRIST[2]
        differ == 100 * Abs(ly - ry) > SIDE_LOCK_DIFF * canvasHeight
        side == IF differ THEN (IF ly < ry THEN "LEFT" ELSE "RIGHT")
                ELSE st.lockedSide
    IN  IF side = "unknown"
        THEN Outcome(st, cd, NoResult, FALSE, NoPosture)
        ELSE Classify([st EXCEPT !.lockedSide = side,
                                 !.calibration =
                                     IF @ # 0 THEN @
                                     ELSE RoundDiv(Abs(sm[side].SHOULDER[2]
                                                       - sm[side].HIP[2])
                                                   * 100000, TORSO_CM)],
                      cd, cs, sm)

\* update, "Lock to one side" and "Setup velocity calibration"
LockAndClassify(st, cd, cs, sm) ==
    LET ly == sm.LEFT.WRIST[2]
        ry == sm.RIGHT.WRIST[2]
        differ == 100 * Abs(ly - ry) > SIDE_LOCK_DIFF * canvasHeight
        side == IF st.lockedSide # "unknown" THEN st.lockedSide
                ELSE IF ly < ry THEN "LEFT" ELSE "RIGHT"
        shoulder == sm[side].SHOULDER
        hip == sm[side].HIP
        calibration ==
            IF st.calibration # 0 THEN st.calibration
            ELSE IF isComplete(cs) THEN getPixelsPerMeter(cs)
            ELSE IF ~IsNull(shoulder) /\ ~IsNull(hip)
            THEN RoundDiv(Abs(shoulder[2] - hip[2]) * 100000, TORSO_CM)
            ELSE st.calibration
    IN  IF st.lockedSide = "unknown" /\ ~differ
        THEN Outcome(st, cd, NoResult, FALSE, NoPosture)
        ELSE Classify([st EXCEPT !.lockedSide = side,
                                 !.calibration = calibration], cd, cs, sm)

\* update, "Reset Detection": drawResetUI reads both shoulders
ResetDetect(st, cd, cs, sm, currentTorso, leftOffset, rightOffset) ==
    LET atHome(off) ==
            100 * Abs(60 * off - cd.neutralWristOffset)
                < HOME_TOLERANCE * 60 * canvasHeight
        isTall == 100 * currentTorso > TALL_FRACTION * cd.maxTorsoLength
    IN  IF atHome(leftOffset) /\ atHome(rightOffset) /\ isTall
        THEN LET s1 == [st EXCEPT !.resetProgress = @ + 1]
             IN  IF IsNull(sm.RIGHT.SHOULDER)
                 THEN Outcome(s1, cd, NoResult, TRUE, NoPosture)
                 ELSE IF s1.resetProgress > RESET_DURATION_FRAMES
                 THEN Outcome(FreshState, cd, NoResult, FALSE, NoPosture)
                 ELSE LockAndClassify(s1, cd, cs, sm)
        ELSE LockAndClassify([st EXCEPT !.resetProgress = 0], cd, cs, sm)

\* update, "Initial Calibration (30 frames)".  neutralWristOffset is kept in
\* sixtieths of a pixel, so that (l + r) / 2 and the final / 30 are exact.
PoseCalibrate(st, cd, currentTorso, leftWristOffset, rightWristOffset) ==
    LET c1 == [cd EXCEPT
                 !.framesCaptured = @ + 1,
                 !.neutralWristOffset =
                     @ + 30 * (leftWristOffset + rightWristOffset),
                 !.maxTorsoLength = Max(@, currentTorso)]
    IN  IF c1.framesCaptured >= POSE_CALIBRATION_FRAMES
        THEN [c1 EXCEPT !.neutralWristOffset = @ \div POSE_CALIBRATION_FRAMES,
                        !.isCalibrated = TRUE]
        ELSE c1

\* update, after smoothLandmarks: sm is the new smoothed pose
updateSmoothed(st, cd, cs, sm) ==
    IF \/ IsNull(sm.LEFT.SHOULDER) \/ IsNull(sm.LEFT.HIP)
       \/ IsNull(sm.LEFT.WRIST) \/ IsNull(sm.RIGHT.WRIST)
       \/ IsNull(sm.RIGHT.HIP)
    THEN Outcome(st, cd, NoResult, TRUE, NoPosture)
    ELSE
    LET currentTorso == Abs(sm.LEFT.SHOULDER[2] - sm.LEFT.HIP[2])
        leftWristOffset == sm.LEFT.WRIST[2] - sm.LEFT.HIP[2]
        rightWristOffset == sm.RIGHT.WRIST[2] - sm.RIGHT.HIP[2]
    IN  IF ~cd.isCalibrated
        THEN Outcome(st,
                     PoseCalibrate(st, cd, currentTorso, leftWristOffset,
                                   rightWristOffset),
                     NoResult, FALSE, NoPosture)
        ELSE ResetDetect(st, cd, cs, sm, currentTorso,
                         leftWristOffset, rightWristOffset)

\* update(pose, timestamp, ctx, canvas); cs is calibrationSystem.state and
\* dt the time since the previous call
update(st, cd, cs, pose, dt) ==
    IF IsNull(pose.LEFT) \/ IsNull(pose.RIGHT)
    THEN Outcome(Aged(st, dt), cd, NoResult, FALSE, NoPosture)
    ELSE Only({updateSmoothed([Aged(st, dt) EXCEPT !.smoothedLandmarks = sm],
                              cd, cs, sm) :
               sm \in {smoothLandmarks(st.smoothedLandmarks, pose)}})

-----------------------------------------------------------------------------
(* CalibrationSystem (src/app.js 660-954)                                  *)

\* constructor / reset(): the state object literal
FreshCalSys ==
    [phase |-> "WAITING_FOR_HEIGHT", userHeightInches |-> 0,
     userHeightCm |-> 0, ankleToNoseCm |-> 0, framesCaptured |-> 0,
     ankleToNosePixelSamples |-> << >>, pixelToCmRatio |-> 0,
     bodySegments |-> [torso |-> 0, thigh |-> 0, shin |-> 0, upperArm |-> 0,
                       forearm |-> 0, ankleToNose |-> 0]]

\* CalibrationSystem constants.  Lengths in cm are kept in hundredths of a
\* centimetre, pixelToCmRatio in hundredths of a centimetre per pixel.
CALIBRATION_FRAMES == 60
NOSE_TO_HEAD_OFFSET_CM == 1100
\* inches * 2.54
CM_PER_INCH == 254
\* least ankle-to-nose distance, hundredths of the canvas height (literal 0.3)
UPRIGHT_MIN == 30

\* a value returned by captureFrame: its status, "null" for null
CalReturn(cs, status, didThrow) ==
    [state |-> cs, returned |-> status, threw |-> didThrow]

\* variant: the nose is taken to be at 88% of the height
setUserHeightFraction(cs, inches) ==
    [cs EXCEPT !.userHeightInches = inches,
               !.userHeightCm = inches * CM_PER_INCH,
               !.ankleToNoseCm = (inches * CM_PER_INCH * 88) \div 100,
               !.phase = "CAPTURING"]

setUserHeight(cs, inches) ==
    [cs EXCEPT !.userHeightInches = inches,
               !.userHeightCm = inches * CM_PER_INCH,
               !.ankleToNoseCm = inches * CM_PER_INCH - NOSE_TO_HEAD_OFFSET_CM,
               !.phase = "CAPTURING"]

\* measureBodySegments, distancePixels: Math.hypot in hundredths of a pixel
distancePixels(a, b) ==
    LET dx == Abs(a[1] - b[1])
        dy == Abs(a[2] - b[2])
        sq == 10000 * (dx * dx + dy * dy)
    IN  IF dx = 0 THEN 100 * dy
        ELSE IF dy = 0 THEN 100 * dx
        ELSE CHOOSE r \in (100 * Max(dx, dy))..(100 * (dx + dy)) :
                 r * r <= sq /\ (r + 1) * (r + 1) > sq

\* measureBodySegments: the new bodySegments, or a TypeError when a landmark
\* it reads is undefined (bodySegments is then not assigned)
measureBodySegments(cs, pose) ==
    LET ratio == cs.pixelToCmRatio
        read == {"SHOULDER", "HIP", "KNEE", "ANKLE", "ELBOW", "WRIST"}
        avgSegment(a, b) ==
            RoundDiv((distancePixels(pose.LEFT[a], pose.LEFT[b])
                      + distancePixels(pose.RIGHT[a], pose.RIGHT[b])) * ratio,
                     200)
    IN  IF \E s \in Sides, l \in read : IsNull(pose[s][l])
        THEN [threw |-> TRUE, bodySegments |-> cs.bodySegments]
        ELSE [threw |-> FALSE,
              bodySegments |->
                  [torso |-> avgSegment("SHOULDER", "HIP"),
                   thigh |-> avgSegment("HIP", "KNEE"),
                   shin |-> avgSegment("KNEE", "ANKLE"),
                   upperArm |-> avgSegment("SHOULDER", "ELBOW"),
                   forearm |-> avgSegment("ELBOW", "WRIST"),
                   ankleToNose |-> cs.ankleToNoseCm]]

\* finalizeCalibration: samples are in half pixels, so the ratio is
\* ankleToNoseCm / (median / 2)
finalizeCalibration(cs, pose) ==
    LET sortedSamples ==
            SortSeq(cs.ankleToNosePixelSamples, LAMBDA a, b : a < b)
        median == sortedSamples[(Len(sortedSamples) \div 2) + 1]
        c1 == [cs EXCEPT !.pixelToCmRatio =
                             RoundDiv(2 * cs.ankleToNoseCm, median)]
        measured == measureBodySegments(c1, pose)
    IN  IF measured.threw THEN CalReturn(c1, "null", TRUE)
        ELSE CalReturn([c1 EXCEPT !.bodySegments = measured.bodySegments,
                                  !.phase = "COMPLETE"],
                       "COMPLETE", FALSE)

\* variant: a frame that is not upright is counted like an accepted one
captureFrameCountsInvalid(cs, pose) ==
    IF cs.phase # "CAPTURING" THEN CalReturn(cs, "null", FALSE)
    ELSE IF IsNull(pose.LEFT) \/ IsNull(pose.RIGHT)
    THEN CalReturn(cs, "null", FALSE)
    ELSE IF \/ IsNull(pose.LEFT.ANKLE) \/ IsNull(pose.RIGHT.ANKLE)
            \/ IsNull(pose.LEFT.NOSE)
    THEN CalReturn(cs, "null", FALSE)
    ELSE
    LET ankleToNosePixels ==
            pose.LEFT.ANKLE[2] + pose.RIGHT.ANKLE[2] - 2 * pose.LEFT.NOSE[2]
        c1 == [cs EXCEPT
                 !.ankleToNosePixelSamples = Append(@, ankleToNosePixels),
                 !.framesCaptured = @ + 1]
    IN  IF 100 * ankleToNosePixels < 2 * UPRIGHT_MIN * canvasHeight
        THEN CalReturn(c1, "INVALID_POSE", FALSE)
        ELSE IF c1.framesCaptured >= CALIBRATION_FRAMES
        THEN finalizeCalibration(c1, pose)
        ELSE CalReturn(c1, "CAPTURING", FALSE)

\* captureFrame(pose, canvasHeight): ankleToNosePixels is kept in half
\* pixels, (leftAnkle.y + rightAnkle.y) - 2 * nose.y
captureFrame(cs, pose) ==
    IF cs.phase # "CAPTURING" THEN CalReturn(cs, "null", FALSE)
    ELSE IF IsNull(pose.LEFT) \/ IsNull(pose.RIGHT)
    THEN CalReturn(cs, "null", FALSE)
    ELSE IF \/ IsNull(pose.LEFT.ANKLE) \/ IsNull(pose.RIGHT.ANKLE)
            \/ IsNull(pose.LEFT.NOSE)
    THEN CalReturn(cs, "null", FALSE)
    ELSE
    LET ankleToNosePixels ==
            pose.LEFT.ANKLE[2] + pose.RIGHT.ANKLE[2] - 2 * pose.LEFT.NOSE[2]
    IN  IF 100 * ankleToNosePixels < 2 * UPRIGHT_MIN * canvasHeight
        THEN CalReturn(cs, "INVALID_POSE", FALSE)
        ELSE LET c1 == [cs EXCEPT
                          !.ankleToNosePixelSamples =
                              Append(@, ankleToNosePixels),
                          !.framesCaptured = @ + 1]
             IN  IF c1.framesCaptured >= CALIBRATION_FRAMES
                 THEN finalizeCalibration(c1, pose)
                 ELSE CalReturn(c1, "CAPTURING", FALSE)

-----------------------------------------------------------------------------
(* Input poses: a standing subject on the canvas, one arm in a named       *)
(* posture.  Coordinates are pixels, y grows downward.                     *)

ShoulderX(side) == IF side = "LEFT" THEN 6 ELSE 4

\* elbow and wrist of an arm posture: <<x offset from the shoulder, y>>
ArmPosture(name) ==
    CASE name = "HOME"  -> [elbow |-> <<0, 5>>, wrist |-> <<0, 7>>]
      [] name = "LOW"   -> [elbow |-> <<0, 6>>, wrist |-> <<0, 9>>]
      [] name = "SWING" -> [elbow |-> <<0, 4>>, wrist |-> <<0, 5>>]
      [] name = "RACK"  -> [elbow |-> <<0, 5>>, wrist |-> <<0, 3>>]
      [] name = "LOCK"  -> [elbow |-> <<0, 2>>, wrist |-> <<0, 0>>]
      [] name = "BENT"  -> [elbow |-> <<1, 2>>, wrist |-> <<0, 1>>]

SidePose(side, name) ==
    LET sx == ShoulderX(side)
        a == ArmPosture(name)
    IN  [l \in Landmarks |->
            CASE l = "NOSE" -> <<5, 2>>
              [] l = "SHOULDER" -> <<sx, 3>>
              [] l = "HIP" -> <<sx, 6>>
              [] l = "KNEE" -> <<sx, 8>>
              [] l = "ANKLE" -> <<sx, 9>>
              [] l = "ELBOW" -> <<sx + a.elbow[1], a.elbow[2]>>
              [] l = "WRIST" -> <<sx + a.wrist[1], a.wrist[2]>>]

Pose(leftArm, rightArm) ==
    [LEFT |-> SidePose("LEFT", leftArm), RIGHT |-> SidePose("RIGHT", rightArm)]

HomePose == Pose("HOME", "HOME")

ArmPostures == {"HOME", "LOW", "SWING", "RACK", "LOCK", "BENT"}

\* poses fed to the engine: the left arm works, or the right arm is raised
Poses == {Pose(a, "HOME") : a \in ArmPostures} \cup {Pose("HOME", "SWING")}

\* frame intervals fed to the engine, ms
FrameDts == {125}

-----------------------------------------------------------------------------
(* Observer of the current rep, from the posture tests update evaluated.   *)

\* overhead / swing: the wrist tested overhead / at swing height on a frame
\* update processed in MOVING or RETURNING; belowHip: it tested below the hip
\* on such a frame or on the frame that entered MOVING; events: rep events
\* returned since MOVING was entered.
FreshObs ==
    [overhead |-> FALSE, swing |-> FALSE, belowHip |-> FALSE, events |-> 0]

Observe(o, preState, out) ==
    IF ~out.seen.classified THEN o
    ELSE IF preState.phase = "IDLE" /\ out.state.phase = "MOVING"
    THEN [overhead |-> FALSE, swing |-> FALSE,
          belowHip |-> out.seen.wristBelowHip, events |-> 0]
    ELSE IF preState.phase \in {"MOVING", "RETURNING"}
    THEN [overhead |-> o.overhead \/ out.seen.wristOverhead,
          swing |-> o.swing \/ out.seen.atSwingHeight,
          belowHip |-> o.belowHip \/ out.seen.wristBelowHip,
          events |-> o.events + (IF out.result.type # "null" THEN 1 ELSE 0)]
    ELSE o

-----------------------------------------------------------------------------
(* The engine alone, second definition: one update call per frame.         *)

\* variables a specification does not use
NoApp == [running |-> FALSE]

NoChain == [type |-> "none"]

Init ==
    /\ state = FreshState
    /\ calibrationData = FreshCalibrationData
    /\ result = NoResult
    /\ threw = FALSE
    /\ calSys = FreshCalSys
    /\ obs = FreshObs
    /\ app = NoApp
    /\ chain = NoChain

\* LOCKOUT_HOLD_FRAMES is 0
WithinCaps(st) ==
    /\ st.rackHoldFrames <= RACK_HOLD_FRAMES + HoldPast
    /\ st.lockoutHoldFrames <= HoldPast
    /\ st.overheadHoldFrames <= OVERHEAD_HOLD_FRAMES + HoldPast

\* the engine's variables after app.stateMachine.update returned out
EngineSteps(out) ==
    /\ WithinCaps(out.state)
    /\ state' = out.state
    /\ calibrationData' = out.calibrationData
    /\ result' = out.result
    /\ threw' = out.threw

EngineTakes(out) ==
    /\ EngineSteps(out)
    /\ obs' = Observe(obs, state, out)

\* masterLoop: app.stateMachine.update(pose, ts, ...) on a detected pose
Frame(pose, dt) ==
    \E out \in {update(state, calibrationData, calSys, pose, dt)} :
        /\ ~calibrationData.isCalibrated => pose = HomePose
        /\ EngineTakes(out)
        /\ UNCHANGED <<calSys, app, chain>>

\* resetSession: app.stateMachine.reset()
Reset ==
    /\ calibrationData.isCalibrated
    /\ state # FreshState
    /\ state' = FreshState
    /\ result' = NoResult
    /\ threw' = FALSE
    /\ obs' = FreshObs
    /\ UNCHANGED <<calibrationData, calSys, app, chain>>

Next ==
    \/ \E pose \in Poses, dt \in FrameDts : Frame(pose, dt)
    \/ Reset

Spec == Init /\ [][Next]_vars

-----------------------------------------------------------------------------
(* Properties of the engine, second definition, under Spec                 *)

RepFlagsCleared(st) ==
    /\ ~st.reachedRack /\ ~st.reachedOverhead /\ ~st.reachedLockout
    /\ ~st.reachedSwingHeight /\ ~st.elbowFoldedBeforeRack
    /\ ~st.wentBelowHip /\ ~st.everWentOverhead
    /\ st.rackHoldFrames = 0 /\ st.lockoutHoldFrames = 0
    /\ st.currentRepPeak = 0 /\ st.pendingMovement = "null"

\* C1: an update returns a rep event only if it began in phase MOVING or
\* RETURNING, and it then leaves the phase IDLE or SETTLING with every
\* rep-scoped flag cleared; so no MOVING episode yields two events and no two
\* consecutive frames both return an event.
C1_OneEventPerEpisode ==
    [][/\ result'.type # "null" =>
              /\ state.phase \in {"MOVING", "RETURNING"}
              /\ state'.phase \in {"IDLE", "SETTLING"}
              /\ RepFlagsCleared(state')
              /\ result.type = "null"
       /\ obs'.events <= 1]_vars

C1_Witness ==
    /\ result.type = "CLEAN"
    /\ state.phase = "IDLE"
    /\ obs.events = 1

\* C3: when update returns a SWING event, the wrist tested overhead on no
\* frame processed since MOVING was entered (everWentOverhead was false before
\* the frame and the frame itself is not overhead), and swing height was seen.
C3_SwingNeverOverhead ==
    [][result'.type = "SWING" =>
           /\ state.phase = "MOVING"
           /\ ~state.everWentOverhead
           /\ ~obs'.overhead
           /\ obs'.swing]_vars

C3_Witness ==
    /\ result.type = "SWING"
    /\ obs.swing
    /\ ~obs.overhead

\* C4: when update returns a PRESS event, the wrist tested below the hip on
\* no frame from the one that entered MOVING to the one that returns the
\* event, RETURNING included.
C4_PressNeverBelowHip == result.type = "PRESS" => ~obs.belowHip

WristsDiffer(sm) ==
    /\ ~IsNull(sm.LEFT.WRIST) /\ ~IsNull(sm.RIGHT.WRIST)
    /\ 100 * Abs(sm.LEFT.WRIST[2] - sm.RIGHT.WRIST[2])
           > SIDE_LOCK_DIFF * canvasHeight

\* C5: a locked side changes only by reset() (the whole state is the fresh
\* one again), never directly to the other side, and the side leaves
\* "unknown" only on an update whose smoothed wrists differ vertically by
\* more than 0.1 of the frame.
C5_SideLockPersists ==
    [][/\ (state.lockedSide # "unknown"
             /\ state'.lockedSide # state.lockedSide) => state' = FreshState
       /\ (state.lockedSide = "unknown" /\ state'.lockedSide # "unknown")
             => WristsDiffer(state'.smoothedLandmarks)]_vars

\* the left side stays locked while the right wrist is the higher one
C5_Witness ==
    /\ state.lockedSide = "LEFT"
    /\ WristsDiffer(state.smoothedLandmarks)
    /\ state.smoothedLandmarks.RIGHT.WRIST[2]
           < state.smoothedLandmarks.LEFT.WRIST[2]

-----------------------------------------------------------------------------
(* Scripted posture chains: the rep counting criteria of the header         *)
(* comment (src/app.js 2584-2592), fed to the second definition.            *)

ArmPose(side, name) ==
    IF side = "LEFT" THEN Pose(name, "HOME") ELSE Pose("HOME", name)

ChainTypes == {"SWING", "CLEAN", "PRESS", "SNATCH"}

\* the three stages of a chain: the posture fed and what has to be seen
\* before the next stage starts
ChainStages(type) ==
    CASE type = "SWING" ->
             <<[arm |-> "LOW", goal |-> "belowHip"],
               [arm |-> "SWING", goal |-> "swingHeight"],
               [arm |-> "LOW", goal |-> "belowHip"]>>
      [] type = "CLEAN" ->
             <<[arm |-> "LOW", goal |-> "belowHip"],
               [arm |-> "RACK", goal |-> "elbowFold"],
               [arm |-> "RACK", goal |-> "rackHeld"]>>
      [] type = "PRESS" ->
             <<[arm |-> "RACK", goal |-> "rackHeld"],
               [arm |-> "LOCK", goal |-> "lockout"],
               [arm |-> "RACK", goal |-> "rackHeld"]>>
      [] type = "SNATCH" ->
             <<[arm |-> "LOW", goal |-> "belowHip"],
               [arm |-> "LOCK", goal |-> "lockout"],
               [arm |-> "LOW", goal |-> "belowHip"]>>

ChainDone == 4

\* held: consecutive frames of the stage on which update saw the rack posture
GoalMet(goal, seen, held) ==
    CASE goal = "belowHip" -> seen.wristBelowHip
      [] goal = "swingHeight" -> seen.atSwingHeight
      [] goal = "elbowFold" -> seen.elbowFolded
      [] goal = "lockout" -> seen.inLockout
      [] goal = "rackHeld" -> held >= RACK_HOLD_FRAMES

\* the 30 frames of the pose calibration, standing with the arms down
ChainCalibrate ==
    /\ ~calibrationData.isCalibrated
    /\ \E out \in {update(state, calibrationData, calSys, HomePose, 125)} :
           EngineTakes(out)
    /\ UNCHANGED <<calSys, app, chain>>

\* one arm is raised until the engine locks a side
ChainLock(side) ==
    /\ calibrationData.isCalibrated
    /\ chain.type = "none"
    /\ state.lockedSide = "unknown"
    /\ chain.side \in {"none", side}
    /\ \E out \in {update(state, calibrationData, calSys,
                          ArmPose(side, "SWING"), 125)} : EngineTakes(out)
    /\ chain' = [chain EXCEPT !.side = side]
    /\ UNCHANGED <<calSys, app>>

\* a chain starts on the engine as the side lock left it
ChainBegin(type) ==
    /\ chain.type = "none"
    /\ state.lockedSide # "unknown"
    /\ ~(type \in chain.done)
    /\ chain' = [chain EXCEPT !.type = type, !.stage = 1, !.held = 0,
                              !.events = << >>]
    /\ UNCHANGED <<state, calibrationData, result, threw, calSys, obs, app>>

\* one frame of the current stage; linger keeps the stage although its goal
\* has been seen
ChainFrame(linger) ==
    /\ chain.type # "none"
    /\ chain.stage < ChainDone
    /\ LET stage == ChainStages(chain.type)[chain.stage]
       IN  \E out \in {update(state, calibrationData, calSys,
                              ArmPose(state.lockedSide, stage.arm), 125)} :
               /\ EngineTakes(out)
               /\ LET held == IF out.seen.inRackPosition
                              THEN chain.held + 1 ELSE 0
                      met == GoalMet(stage.goal, out.seen, held)
                      ended == met /\ (chain.stage = 3 \/ ~linger)
                      events == IF out.result.type = "null" THEN chain.events
                                ELSE Append(chain.events, out.result.type)
                  IN  /\ linger => met
                      /\ chain' = [chain EXCEPT
                             !.stage = IF ended THEN @ + 1 ELSE @,
                             !.held = IF ended THEN 0 ELSE held,
                             !.events = events,
                             !.done = IF ended /\ chain.stage = 3
                                      THEN @ \cup {chain.type} ELSE @]
    /\ UNCHANGED <<calSys, app>>

\* resetSession between two chains
ChainReset ==
    /\ chain.type # "none"
    /\ chain.stage = ChainDone
    /\ state' = FreshState
    /\ result' = NoResult
    /\ threw' = FALSE
    /\ obs' = FreshObs
    /\ chain' = [chain EXCEPT !.type = "none", !.side = "none", !.stage = 0,
                              !.held = 0, !.events = << >>]
    /\ UNCHANGED <<calibrationData, calSys, app>>

InitChain ==
    /\ state = FreshState
    /\ calibrationData = FreshCalibrationData
    /\ result = NoResult
    /\ threw = FALSE
    /\ calSys = FreshCalSys
    /\ obs = FreshObs
    /\ app = NoApp
    /\ chain = [type |-> "none", side |-> "none", stage |-> 0, held |-> 0,
                events |-> << >>, done |-> {}]

NextChain ==
    \/ ChainCalibrate
    \/ \E side \in Sides : ChainLock(side)
    \/ \E type \in ChainTypes : ChainBegin(type)
    \/ \E linger \in BOOLEAN : ChainFrame(linger)
    \/ ChainReset

SpecChain == InitChain /\ [][NextChain]_vars

\* C2: when a chain of any of the four types has been fed to the end, update
\* has returned exactly one rep event during it, and that event has the
\* chain's type.
C2_ChainYieldsOneRep ==
    (chain.type # "none" /\ chain.stage = ChainDone)
        => chain.events = <<chain.type>>

\* all four chains have been fed to the end
C2_Witness ==
    /\ chain.type # "none"
    /\ chain.stage = ChainDone
    /\ chain.done = ChainTypes
    /\ chain.events = <<chain.type>>

-----------------------------------------------------------------------------
(* Frames with a missing landmark, second definition.                      *)

RequiredLandmarks == {"WRIST", "ELBOW", "SHOULDER", "HIP", "NOSE"}

\* the pose with one landmark of one side undefined
Without(pose, side, landmark) == [pose EXCEPT ![side][landmark] = Null]

\* the sides update reads: both until a side is locked
TrackedSides(st) ==
    IF st.lockedSide = "unknown" THEN Sides ELSE {st.lockedSide}

MissingPoses == {HomePose, Pose("RACK", "HOME")}

\* frames with a missing landmark fed in one run
MaxMissing == 2

InitMissing ==
    /\ state = FreshState
    /\ calibrationData = FreshCalibrationData
    /\ result = NoResult
    /\ threw = FALSE
    /\ calSys = FreshCalSys
    /\ obs = [fed |-> "none", missing |-> 0]
    /\ app = NoApp
    /\ chain = NoChain

\* update on a pose with every landmark
FrameComplete(pose) ==
    /\ ~calibrationData.isCalibrated => pose = HomePose
    /\ \E out \in {update(state, calibrationData, calSys, pose, 125)} :
           EngineSteps(out)
    /\ obs' = [obs EXCEPT !.fed = "complete"]
    /\ UNCHANGED <<calSys, app, chain>>

\* update on a pose in which a required landmark of a tracked side is absent
FrameMissing(pose, side, landmark) ==
    /\ ~calibrationData.isCalibrated => pose = HomePose
    /\ side \in TrackedSides(state)
    /\ obs.missing < MaxMissing
    /\ \E out \in {update(state, calibrationData, calSys,
                          Without(pose, side, landmark), 125)} :
           EngineSteps(out)
    /\ obs' = [fed |-> "missing", missing |-> obs.missing + 1]
    /\ UNCHANGED <<calSys, app, chain>>

NextMissing ==
    \/ \E pose \in MissingPoses : FrameComplete(pose)
    \/ \E pose \in MissingPoses, side \in Sides,
          landmark \in RequiredLandmarks : FrameMissing(pose, side, landmark)

SpecMissing == InitMissing /\ [][NextMissing]_vars

\* C6: an update call on a frame in which a required landmark of a tracked
\* side is absent terminates normally, returns no event and leaves the engine
\* state (smoothed landmarks, hold counters, reset progress) and the pose
\* calibration as they were; only the time since the last wrist sample grows.
C6_MissingFrameSkipped ==
    [][obs'.fed = "missing" =>
           /\ ~threw'
           /\ result' = NoResult
           /\ state' = Aged(state, 125)
           /\ calibrationData' = calibrationData]_vars

-----------------------------------------------------------------------------
(* The CalibrationSystem alone: the calibrate button, the frames of        *)
(* masterLoop while the phase is CAPTURING, and reset().                   *)

\* heights entered, inches
Heights == {60, 70}

\* the pose with the nose on pixel row y
NoseAt(pose, y) == [pose EXCEPT !.LEFT.NOSE = <<5, y>>, !.RIGHT.NOSE = <<5, y>>]

\* upright poses with the ankle-to-nose distance of HomePose
SteadyPoses ==
    {HomePose, Pose("RACK", "HOME"),
     Without(HomePose, "RIGHT", "SHOULDER"), Without(HomePose, "LEFT", "WRIST")}

\* accepted poses with another ankle-to-nose distance
OutlierPoses == {NoseAt(HomePose, 3), NoseAt(HomePose, 6)}

\* poses captureFrame does not accept
RejectedPoses ==
    {NoseAt(HomePose, 7), Without(HomePose, "LEFT", "ANKLE"),
     Without(HomePose, "LEFT", "NOSE"), [HomePose EXCEPT !.RIGHT = Null]}

CalPoses == SteadyPoses \cup OutlierPoses \cup RejectedPoses

\* outlier frames in one run, and frames captured past CALIBRATION_FRAMES
MaxOutliers == 1
MaxExtra == 2

InitCal ==
    /\ state = FreshState
    /\ calibrationData = FreshCalibrationData
    /\ result = NoResult
    /\ threw = FALSE
    /\ calSys = FreshCalSys
    /\ obs = [op |-> "none", fed |-> Null, returned |-> "null",
              everComplete |-> FALSE, outliers |-> 0]
    /\ app = NoApp
    /\ chain = NoChain

\* calibrate button: app.calibrationSystem.setUserHeight(heightInches)
SetUserHeight(inches) ==
    /\ calSys.userHeightInches # inches
    /\ calSys' = setUserHeight(calSys, inches)
    /\ threw' = FALSE
    /\ obs' = [obs EXCEPT !.op = "setUserHeight", !.fed = Null,
                          !.returned = "null"]
    /\ UNCHANGED <<state, calibrationData, result, app, chain>>

\* app.calibrationSystem.captureFrame(pose, app.canvas.height)
CaptureFrame(pose) ==
    /\ calSys.framesCaptured < CALIBRATION_FRAMES + MaxExtra
    /\ pose \in OutlierPoses => obs.outliers < MaxOutliers
    /\ \E out \in {captureFrame(calSys, pose)} :
           /\ calSys' = out.state
           /\ threw' = out.threw
           /\ obs' = [op |-> "captureFrame", fed |-> pose,
                      returned |-> out.returned,
                      everComplete |->
                          obs.everComplete \/ out.state.phase = "COMPLETE",
                      outliers |->
                          IF /\ pose \in OutlierPoses
                             /\ out.state.framesCaptured # calSys.framesCaptured
                          THEN obs.outliers + 1 ELSE obs.outliers]
    /\ UNCHANGED <<state, calibrationData, result, app, chain>>

\* CalibrationSystem.reset()
CalReset ==
    /\ calSys # FreshCalSys
    /\ calSys' = FreshCalSys
    /\ threw' = FALSE
    /\ obs' = [op |-> "reset", fed |-> Null, returned |-> "null",
               everComplete |-> FALSE, outliers |-> 0]
    /\ UNCHANGED <<state, calibrationData, result, app, chain>>

NextCal ==
    \/ \E inches \in Heights : SetUserHeight(inches)
    \/ \E pose \in CalPoses : CaptureFrame(pose)
    \/ CalReset

SpecCal == InitCal /\ [][NextCal]_vars

\* the ankle-to-nose distance of a pose in half pixels, from its landmarks
AnkleToNose2(pose) ==
    pose.LEFT.ANKLE[2] + pose.RIGHT.ANKLE[2] - 2 * pose.LEFT.NOSE[2]

\* the pose has both ankles and the nose
Measurable(pose) ==
    /\ ~IsNull(pose.LEFT) /\ ~IsNull(pose.RIGHT)
    /\ ~IsNull(pose.LEFT.ANKLE) /\ ~IsNull(pose.RIGHT.ANKLE)
    /\ ~IsNull(pose.LEFT.NOSE)

\* C8: once the phase has been COMPLETE, no setUserHeight or captureFrame
\* call changes pixelToCmRatio or bodySegments; only reset() does.
C8_ProfileImmutable ==
    [][(obs.everComplete /\ obs'.op # "reset") =>
           /\ calSys'.pixelToCmRatio = calSys.pixelToCmRatio
           /\ calSys'.bodySegments = calSys.bodySegments]_vars

\* C9: a captureFrame call outside CAPTURING changes nothing; while CAPTURING
\* a frame whose ankle-to-nose distance is below 30% of the canvas height
\* returns INVALID_POSE and leaves framesCaptured, the samples and the phase
\* as they were; a frame at or above 30% adds exactly its distance to the
\* samples and one to framesCaptured.
C9_CaptureFrameEffect ==
    [][obs'.op = "captureFrame" =>
           LET pose == obs'.fed
               kept == /\ calSys'.framesCaptured = calSys.framesCaptured
                       /\ calSys'.ankleToNosePixelSamples
                              = calSys.ankleToNosePixelSamples
                       /\ calSys'.phase = calSys.phase
           IN  /\ calSys.phase # "CAPTURING" =>
                      calSys' = calSys /\ obs'.returned = "null"
               /\ (calSys.phase = "CAPTURING" /\ Measurable(pose)) =>
                      IF 10 * AnkleToNose2(pose) < 6 * canvasHeight
                      THEN kept /\ obs'.returned = "INVALID_POSE"
                      ELSE /\ calSys'.framesCaptured
                                  = calSys.framesCaptured + 1
                           /\ calSys'.ankleToNosePixelSamples
                                  = Append(calSys.ankleToNosePixelSamples,
                                           AnkleToNose2(pose))
                           /\ obs'.returned # "INVALID_POSE"]_vars

\* a frame was rejected as INVALID_POSE after frames had been accepted
C9_Witness ==
    /\ obs.op = "captureFrame"
    /\ obs.returned = "INVALID_POSE"
    /\ calSys.phase = "CAPTURING"
    /\ calSys.framesCaptured > 1
    /\ Len(calSys.ankleToNosePixelSamples) = calSys.framesCaptured

\* C10: every captureFrame call terminates normally with a capture status, a
\* completion result or null, and a call made with no ratio set never leaves
\* pixelToCmRatio set while the phase is still CAPTURING.
C10_CaptureFrameTotal ==
    [][obs'.op = "captureFrame" =>
           /\ ~threw'
           /\ obs'.returned
                  \in {"null", "INVALID_POSE", "CAPTURING", "COMPLETE"}
           /\ calSys.pixelToCmRatio = 0 =>
                  ~(calSys'.pixelToCmRatio # 0
                      /\ calSys'.phase = "CAPTURING")]_vars

-----------------------------------------------------------------------------
(* VBTStateMachine, first definition (src/app.js 984-1734), the one wired   *)
(* to the trackers.  calculateElbowAngle, smoothLandmarks, calculateVelocity *)
(* and the pose calibration are the same code in both definitions; the     *)
(* thresholds not listed here have the values of the second definition.    *)

\* THRESHOLDS of the first definition
LOCKOUT_HOLD_FRAMES == 0
WRIST_OVERHEAD1 == 0
TUCKED_MAX == 10
ALIGN_MAX == 10
SNATCH_ARM_EXTENSION_RATIO1 == 30
\* isSwingHeight: part of the torso above the hip, hundredths (literal 0.30)
NAVEL_FRACTION == 30

\* reset(): the state object literal
FreshState1 ==
    [lockedSide |-> "unknown", phase |-> "IDLE",
     startedFromRack |-> FALSE, startedBelowHip |-> FALSE,
     startedFromOverhead |-> FALSE, settlingFrames |-> 0,
     reachedRack |-> FALSE, reachedOverhead |-> FALSE,
     reachedLockout |-> FALSE, reachedElbowExtension |-> FALSE,
     reachedSwingHeight |-> FALSE, wentBelowHip |-> FALSE,
     elbowStayedExtended |-> TRUE,
     rackHoldFrames |-> 15, lockoutHoldFrames |-> 0,
     currentRepPeak |-> 0, smoothedVy |-> 0,
     lastWristPos |-> Null, calibration |-> 0, resetProgress |-> 0,
     pendingMovement |-> "null",
     smoothedLandmarks |-> EmptyLandmarks]

isWristOverhead1(wrist, shoulder, nose, armLengthPixels) ==
    \/ /\ armLengthPixels > 0
       /\ 100 * (shoulder[2] - wrist[2])
              > SNATCH_ARM_EXTENSION_RATIO1 * armLengthPixels
    \/ 100 * wrist[2] < 100 * nose[2] - WRIST_OVERHEAD1 * canvasHeight

\* isSwingHeight: the wrist is above the navel
isSwingHeight(wrist, hip, shoulder) ==
    100 * wrist[2] < 100 * hip[2] - NAVEL_FRACTION * Abs(hip[2] - shoulder[2])

\* update, "Calculate current positions"
PostureTests1(wrist, elbow, shoulder, hip, nose, arm) ==
    LET elbowAngle == calculateElbowAngle(shoulder, elbow, wrist)
        wristNearShoulder ==
            100 * Abs(wrist[2] - shoulder[2])
                < WRIST_NEAR_SHOULDER * canvasHeight
        wristOverhead == isWristOverhead1(wrist, shoulder, nose, arm)
    IN  [classified |-> TRUE,
         wristBelowHip |-> wrist[2] > hip[2],
         wristOverhead |-> wristOverhead,
         atSwingHeight |-> isSwingHeight(wrist, hip, shoulder),
         inRackPosition |->
             /\ AngleBelow(elbowAngle, RACK_ELBOW_MAX)
             /\ wristNearShoulder
             /\ 100 * Abs(elbow[1] - hip[1]) < TUCKED_MAX * canvasHeight,
         inLockout |->
             /\ AngleAbove(elbowAngle, LOCKOUT_ELBOW_MIN)
             /\ wristOverhead
             /\ 100 * Abs(shoulder[1] - wrist[1]) < ALIGN_MAX * canvasHeight,
         elbowFolded |-> AngleBelow(elbowAngle, RACK_ELBOW_MAX),
         elbowExtended |-> AngleAbove(elbowAngle, LOCKOUT_ELBOW_MIN)]

resetForSnatch1(st) ==
    [st EXCEPT !.phase = "SETTLING", !.settlingFrames = 0,
               !.startedFromRack = FALSE, !.startedBelowHip = FALSE,
               !.startedFromOverhead = FALSE, !.reachedRack = FALSE,
               !.reachedOverhead = FALSE, !.reachedLockout = FALSE,
               !.reachedElbowExtension = FALSE,
               !.reachedSwingHeight = FALSE, !.wentBelowHip = FALSE,
               !.elbowStayedExtended = TRUE, !.rackHoldFrames = 0,
               !.lockoutHoldFrames = 0, !.currentRepPeak = 0,
               !.pendingMovement = "null"]

resetForNextRep1(st, inRack) ==
    [st EXCEPT !.phase = "IDLE", !.startedFromRack = inRack,
               !.startedBelowHip = ~inRack, !.startedFromOverhead = FALSE,
               !.reachedRack = inRack, !.reachedOverhead = FALSE,
               !.reachedLockout = FALSE, !.reachedElbowExtension = FALSE,
               !.reachedSwingHeight = FALSE, !.wentBelowHip = FALSE,
               !.elbowStayedExtended = TRUE,
               !.rackHoldFrames = IF inRack THEN RACK_HOLD_FRAMES ELSE 0,
               !.lockoutHoldFrames = 0, !.currentRepPeak = 0,
               !.pendingMovement = "null"]

\* update, PHASE: IDLE
Idle1(st, P) ==
    LET s1 == IF P.inLockout
              THEN LET c == [st EXCEPT !.lockoutHoldFrames = @ + 1]
                   IN  IF c.lockoutHoldFrames >= OVERHEAD_HOLD_FRAMES
                       THEN [c EXCEPT !.startedFromOverhead = TRUE,
                                      !.startedFromRack = FALSE,
                                      !.startedBelowHip = FALSE]
                       ELSE c
              ELSE IF P.inRackPosition
              THEN LET c == [st EXCEPT !.rackHoldFrames = @ + 1,
                                       !.lockoutHoldFrames = 0]
                   IN  IF c.rackHoldFrames >= RACK_HOLD_FRAMES
                       THEN [c EXCEPT !.startedFromRack = TRUE,
                                      !.startedFromOverhead = FALSE,
                                      !.startedBelowHip = FALSE]
                       ELSE c
              ELSE IF P.wristBelowHip
              THEN [st EXCEPT !.rackHoldFrames = 0, !.lockoutHoldFrames = 0,
                              !.startedFromRack = FALSE,
                              !.startedFromOverhead = FALSE,
                              !.startedBelowHip = TRUE]
              ELSE st
        started == [s1 EXCEPT !.phase = "MOVING", !.reachedRack = FALSE,
                              !.reachedOverhead = FALSE,
                              !.reachedLockout = FALSE,
                              !.reachedSwingHeight = FALSE,
                              !.wentBelowHip = FALSE,
                              !.elbowStayedExtended = TRUE,
                              !.currentRepPeak = 0, !.lockoutHoldFrames = 0]
    IN  IF s1.startedFromOverhead /\ ~P.inLockout
        THEN [started EXCEPT !.rackHoldFrames = 0]
        ELSE IF s1.startedFromRack /\ ~P.inRackPosition
        THEN started
        ELSE IF s1.startedBelowHip /\ ~P.wristBelowHip
        THEN [started EXCEPT !.rackHoldFrames = 0]
        ELSE s1

\* update, PHASE: MOVING
Moving1(st, P) ==
    LET s1 == [st EXCEPT
                 !.currentRepPeak = Max(@, Abs(st.smoothedVy)),
                 !.elbowStayedExtended = IF P.elbowFolded THEN FALSE ELSE @,
                 !.reachedElbowExtension = @ \/ P.elbowExtended,
                 !.wentBelowHip = @ \/ P.wristBelowHip,
                 !.reachedOverhead = @ \/ P.wristOverhead,
                 !.reachedSwingHeight = @ \/ P.atSwingHeight,
                 !.reachedLockout = @ \/ P.inLockout,
                 !.lockoutHoldFrames = IF P.inLockout THEN @ + 1 ELSE 0,
                 !.reachedRack = @ \/ P.inRackPosition,
                 !.rackHoldFrames = IF P.inRackPosition THEN @ + 1 ELSE 0]
    IN  IF /\ s1.startedFromRack /\ s1.reachedLockout
           /\ s1.lockoutHoldFrames >= LOCKOUT_HOLD_FRAMES
           /\ ~s1.wentBelowHip
        THEN [state |-> [s1 EXCEPT !.phase = "RETURNING",
                                   !.pendingMovement = "PRESS"],
              result |-> NoResult]
        ELSE IF /\ \/ s1.startedBelowHip \/ s1.startedFromRack
                   \/ s1.startedFromOverhead
                /\ s1.wentBelowHip /\ s1.reachedOverhead
                /\ s1.reachedLockout /\ P.wristBelowHip
        THEN [state |-> [s1 EXCEPT !.phase = "RETURNING",
                                   !.pendingMovement = "SNATCH"],
              result |-> NoResult]
        ELSE IF /\ s1.startedBelowHip /\ ~s1.elbowStayedExtended
                /\ s1.reachedRack /\ s1.rackHoldFrames >= RACK_HOLD_FRAMES
        THEN [state |-> resetForNextRep1(s1, TRUE),
              result |-> RepResult("CLEAN", s1.currentRepPeak, "null")]
        ELSE IF /\ s1.startedFromRack /\ s1.wentBelowHip
                /\ s1.reachedRack /\ s1.rackHoldFrames >= RACK_HOLD_FRAMES
        THEN [state |-> resetForNextRep1(s1, TRUE),
              result |-> RepResult("CLEAN", s1.currentRepPeak, "null")]
        ELSE IF /\ s1.startedBelowHip /\ s1.reachedSwingHeight
                /\ P.wristBelowHip
        THEN [state |-> resetForNextRep1(s1, FALSE),
              result |-> RepResult("SWING", s1.currentRepPeak, "null")]
        ELSE [state |-> s1, result |-> NoResult]

\* update, PHASE: RETURNING
Returning1(st, P) ==
    LET s == [st EXCEPT !.currentRepPeak = Max(@, Abs(st.smoothedVy))]
    IN  IF s.pendingMovement = "PRESS" /\ P.inRackPosition
        THEN LET s1 == [s EXCEPT !.rackHoldFrames = @ + 1]
             IN  IF s1.rackHoldFrames >= RACK_HOLD_FRAMES
                 THEN [state |-> resetForNextRep1(s1, TRUE),
                       result |->
                           RepResult("PRESS", s1.currentRepPeak, "null")]
                 ELSE [state |-> s1, result |-> NoResult]
        ELSE IF s.pendingMovement = "SNATCH" /\ P.wristBelowHip
        THEN [state |-> resetForSnatch1(s),
              result |-> RepResult("SNATCH", s.currentRepPeak, "null")]
        ELSE [state |-> s, result |-> NoResult]

\* update, PHASE: SETTLING
Settling1(st, P) ==
    LET s1 == [st EXCEPT !.settlingFrames = @ + 1]
    IN  IF s1.settlingFrames >= SNATCH_SETTLING_FRAMES
        THEN IF P.inLockout
             THEN [s1 EXCEPT !.phase = "IDLE", !.startedFromOverhead = TRUE]
             ELSE IF P.wristBelowHip
             THEN [s1 EXCEPT !.phase = "IDLE", !.startedBelowHip = TRUE]
             ELSE [s1 EXCEPT !.phase = "IDLE"]
        ELSE s1

\* update, "STATE MACHINE LOGIC": the if - else if chain over the phase
PhaseStep1(st, P) ==
    IF st.phase = "IDLE"
    THEN [state |-> Idle1(st, P), result |-> NoResult]
    ELSE IF st.phase = "MOVING" THEN Moving1(st, P)
    ELSE IF st.phase = "RETURNING" THEN Returning1(st, P)
    ELSE IF st.phase = "SETTLING"
    THEN [state |-> Settling1(st, P), result |-> NoResult]
    ELSE [state |-> st, result |-> NoResult]

\* What one update call of the first definition yields; boundary is the
\* number of onStandingReset() calls it made.
Outcome1(st, cd, res, th, seen, boundary) ==
    [state |-> st, calibrationData |-> cd, result |-> res, threw |-> th,
     seen |-> seen, boundary |-> boundary]

\* update, from "CALCULATE CURRENT POSITIONS" to the end
Classify1(st, cd, cs, sm) ==
    LET side == st.lockedSide
        wrist == sm[side].WRIST
        elbow == sm[side].ELBOW
        shoulder == sm[side].SHOULDER
        hip == sm[side].HIP
        nose == sm[side].NOSE
        arm == ArmLengthFor(cs)
    IN  IF IsNull(shoulder) \/ IsNull(elbow)
        THEN Outcome1(st, cd, NoResult, TRUE, NoPosture, 0)
        ELSE IF /\ IsNull(nose)
                /\ ~(arm > 0 /\ 100 * (shoulder[2] - wrist[2])
                                  > SNATCH_ARM_EXTENSION_RATIO1 * arm)
        THEN Outcome1(st, cd, NoResult, TRUE, NoPosture, 0)
        ELSE Only({Only({Outcome1(step.state, cd, step.result, FALSE, P, 0) :
                         step \in {PhaseStep1(VelocityStep(st, wrist), P)}}) :
                   P \in {PostureTests1(wrist, elbow, shoulder, hip,
                                         IF IsNull(nose) THEN wrist ELSE nose,
                                         arm)}})

\* update, "SIDE LOCK" and "VELOCITY CALIBRATION"
LockAndClassify1(st, cd, cs, sm) ==
    LET ly == sm.LEFT.WRIST[2]
        ry == sm.RIGHT.WRIST[2]
        differ == 100 * Abs(ly - ry) > SIDE_LOCK_DIFF * canvasHeight
        side == IF st.lockedSide # "unknown" THEN st.lockedSide
                ELSE IF ly > ry THEN "LEFT" ELSE "RIGHT"
        shoulder == sm[side].SHOULDER
        hip == sm[side].HIP
        calibration ==
            IF st.calibration # 0 THEN st.calibration
            ELSE IF isComplete(cs) THEN getPixelsPerMeter(cs)
            ELSE IF ~IsNull(shoulder) /\ ~IsNull(hip)
            THEN RoundDiv(Abs(shoulder[2] - hip[2]) * 100000, TORSO_CM)
            ELSE st.calibration
    IN  IF st.lockedSide = "unknown" /\ ~differ
        THEN Outcome1(st, cd, NoResult, FALSE, NoPosture, 0)
        ELSE Classify1([st EXCEPT !.lockedSide = side,
                                  !.calibration = calibration], cd, cs, sm)

\* variant: the reset fires when resetProgress reaches RESET_DURATION_FRAMES
ResetDetectEarly(st, cd, cs, sm, currentTorso, leftOffset, rightOffset) ==
    LET atHome(off) ==
            100 * Abs(60 * off - cd.neutralWristOffset)
                < HOME_TOLERANCE * 60 * canvasHeight
        isTall == 100 * currentTorso > TALL_FRACTION * cd.maxTorsoLength
    IN  IF atHome(leftOffset) /\ atHome(rightOffset) /\ isTall
        THEN LET s1 == [st EXCEPT !.resetProgress = @ + 1]
             IN  IF IsNull(sm.RIGHT.SHOULDER)
                 THEN Outcome1(s1, cd, NoResult, TRUE, NoPosture, 0)
                 ELSE IF s1.resetProgress >= RESET_DURATION_FRAMES
                 THEN Outcome1(FreshState1, cd, NoResult, FALSE, NoPosture, 1)
                 ELSE LockAndClassify1(s1, cd, cs, sm)
        ELSE LockAndClassify1([st EXCEPT !.resetProgress = 0], cd, cs, sm)

\* update, "RESET DETECTION": drawResetUI reads both shoulders; past
\* RESET_DURATION_FRAMES onStandingReset() is called, then this.reset()
ResetDetect1(st, cd, cs, sm, currentTorso, leftOffset, rightOffset) ==
    LET atHome(off) ==
            100 * Abs(60 * off - cd.neutralWristOffset)
                < HOME_TOLERANCE * 60 * canvasHeight
        isTall == 100 * currentTorso > TALL_FRACTION * cd.maxTorsoLength
    IN  IF atHome(leftOffset) /\ atHome(rightOffset) /\ isTall
        THEN LET s1 == [st EXCEPT !.resetProgress = @ + 1]
             IN  IF IsNull(sm.RIGHT.SHOULDER)
                 THEN Outcome1(s1, cd, NoResult, TRUE, NoPosture, 0)
                 ELSE IF s1.resetProgress > RESET_DURATION_FRAMES
                 THEN Outcome1(FreshState1, cd, NoResult, FALSE, NoPosture, 1)
                 ELSE LockAndClassify1(s1, cd, cs, sm)
        ELSE LockAndClassify1([st EXCEPT !.resetProgress = 0], cd, cs, sm)

\* update, after smoothLandmarks: sm is the new smoothed pose
updateSmoothed1(st, cd, cs, sm) ==
    IF \/ IsNull(sm.LEFT.SHOULDER) \/ IsNull(sm.LEFT.HIP)
       \/ IsNull(sm.LEFT.WRIST) \/ IsNull(sm.RIGHT.WRIST)
       \/ IsNull(sm.RIGHT.HIP)
    THEN Outcome1(st, cd, NoResult, TRUE, NoPosture, 0)
    ELSE
    LET currentTorso == Abs(sm.LEFT.SHOULDER[2] - sm.LEFT.HIP[2])
        leftWristOffset == sm.LEFT.WRIST[2] - sm.LEFT.HIP[2]
        rightWristOffset == sm.RIGHT.WRIST[2] - sm.RIGHT.HIP[2]
    IN  IF ~cd.isCalibrated
        THEN Outcome1(st,
                      PoseCalibrate(st, cd, currentTorso, leftWristOffset,
                                    rightWristOffset),
                      NoResult, FALSE, NoPosture, 0)
        ELSE ResetDetect1(st, cd, cs, sm, currentTorso,
                          leftWristOffset, rightWristOffset)

\* update(pose, timestamp, ctx, canvas) of the first definition
update1(st, cd, cs, pose, dt) ==
    IF IsNull(pose.LEFT) \/ IsNull(pose.RIGHT)
    THEN Outcome1(Aged(st, dt), cd, NoResult, FALSE, NoPosture, 0)
    ELSE Only({updateSmoothed1([Aged(st, dt) EXCEPT !.smoothedLandmarks = sm],
                               cd, cs, sm) :
               sm \in {smoothLandmarks(st.smoothedLandmarks, pose)}})

-----------------------------------------------------------------------------
(* VelocityFatigueTracker (src/app.js 61-321).  Velocities are in mm/s,    *)
(* percentages in hundredths of a percent; a null velocity is -1.          *)

Movements == {"PRESS", "CLEAN", "SNATCH", "SWING"}

NoVelocity == -1

\* config defaults
baselineReps == 3
alertThresholds == <<10, 20, 30>>

\* VelocityFatigueTracker.reset(): this.data
FreshFatigue ==
    [m \in Movements |->
        [velocities |-> << >>, baselineVelocity |-> NoVelocity,
         currentVelocity |-> NoVelocity, peakVelocity |-> NoVelocity,
         dropFromBaseline |-> 0, dropFromPeak |-> 0,
         thresholdsCrossed |-> << >>, repCount |-> 0,
         fatigueZone |-> "FRESH"]]

RECURSIVE SumSeq(_)
SumSeq(seq) == IF seq = << >> THEN 0 ELSE Head(seq) + SumSeq(Tail(seq))

calculateAverage(arr) ==
    IF Len(arr) = 0 THEN 0 ELSE RoundDiv(SumSeq(arr), Len(arr))

calculatePercentDrop(reference, current) ==
    IF reference = NoVelocity \/ reference = 0 THEN 0
    ELSE Max(0, RoundDiv((reference - current) * 10000, reference))

\* determineFatigueZone with the boundaries in the lower band
determineFatigueZoneInclusive(dropPercent) ==
    IF dropPercent <= 500 THEN "FRESH"
    ELSE IF dropPercent <= 1000 THEN "MILD"
    ELSE IF dropPercent <= 2000 THEN "MODERATE"
    ELSE IF dropPercent <= 3000 THEN "HIGH"
    ELSE "CRITICAL"

determineFatigueZone(dropPercent) ==
    IF dropPercent < 500 THEN "FRESH"
    ELSE IF dropPercent < 1000 THEN "MILD"
    ELSE IF dropPercent < 2000 THEN "MODERATE"
    ELSE IF dropPercent < 3000 THEN "HIGH"
    ELSE "CRITICAL"

\* checkThresholds without the thresholdsCrossed.includes test
checkThresholdsRepeats(crossed, dropFromBaseline) ==
    LET add(seq, t) == IF dropFromBaseline >= 100 * t
                       THEN Append(seq, t) ELSE seq
    IN  add(add(add(crossed, alertThresholds[1]), alertThresholds[2]),
            alertThresholds[3])

\* checkThresholds that records at most one threshold per call
checkThresholdsOnePerCall(crossed, dropFromBaseline) ==
    LET listed(seq, t) == \E i \in 1..Len(seq) : seq[i] = t
        reached == {i \in 1..Len(alertThresholds) :
                       /\ dropFromBaseline >= 100 * alertThresholds[i]
                       /\ ~listed(crossed, alertThresholds[i])}
    IN  IF reached = {} THEN crossed
        ELSE Append(crossed,
                    alertThresholds[CHOOSE i \in reached :
                                        \A j \in reached : i <= j])

\* checkThresholds that lists a threshold only when the drop is above it
checkThresholdsAbove(crossed, dropFromBaseline) ==
    LET listed(seq, t) == \E i \in 1..Len(seq) : seq[i] = t
        add(seq, t) == IF dropFromBaseline > 100 * t /\ ~listed(seq, t)
                       THEN Append(seq, t) ELSE seq
    IN  add(add(add(crossed, alertThresholds[1]), alertThresholds[2]),
            alertThresholds[3])

\* checkThresholds: the thresholds reached and not yet listed are appended
checkThresholds(crossed, dropFromBaseline) ==
    LET listed(seq, t) == \E i \in 1..Len(seq) : seq[i] = t
        add(seq, t) == IF dropFromBaseline >= 100 * t /\ ~listed(seq, t)
                       THEN Append(seq, t) ELSE seq
    IN  add(add(add(crossed, alertThresholds[1]), alertThresholds[2]),
            alertThresholds[3])

\* addRep with the baseline recomputed on every rep from the K-th on
addRepRebaseline(data, movementType, velocity) ==
    IF movementType \notin Movements THEN data
    ELSE
    LET d0 == data[movementType]
        d1 == [d0 EXCEPT
                 !.velocities = Append(@, velocity),
                 !.currentVelocity = velocity,
                 !.repCount = @ + 1,
                 !.peakVelocity =
                     IF @ = NoVelocity \/ @ = 0 \/ velocity > @
                     THEN velocity ELSE @]
        d2 == IF d1.repCount >= baselineReps
              THEN [d1 EXCEPT !.baselineVelocity =
                                  calculateAverage(d1.velocities)]
              ELSE d1
        drop == calculatePercentDrop(d2.baselineVelocity, velocity)
        d3 == IF d2.baselineVelocity # NoVelocity /\ d2.baselineVelocity # 0
              THEN [d2 EXCEPT
                      !.dropFromBaseline = drop,
                      !.dropFromPeak =
                          calculatePercentDrop(d2.peakVelocity, velocity),
                      !.thresholdsCrossed = checkThresholds(@, drop),
                      !.fatigueZone = determineFatigueZone(drop)]
              ELSE d2
    IN  [data EXCEPT ![movementType] = d3]

\* addRep(movementType, velocity): the new this.data
addRep(data, movementType, velocity) ==
    IF movementType \notin Movements THEN data
    ELSE
    LET d0 == data[movementType]
        d1 == [d0 EXCEPT
                 !.velocities = Append(@, velocity),
                 !.currentVelocity = velocity,
                 !.repCount = @ + 1,
                 !.peakVelocity =
                     IF @ = NoVelocity \/ @ = 0 \/ velocity > @
                     THEN velocity ELSE @]
        d2 == IF d1.repCount = baselineReps
              THEN [d1 EXCEPT !.baselineVelocity =
                                  calculateAverage(d1.velocities)]
              ELSE d1
        drop == calculatePercentDrop(d2.baselineVelocity, velocity)
        d3 == IF d2.baselineVelocity # NoVelocity /\ d2.baselineVelocity # 0
              THEN [d2 EXCEPT
                      !.dropFromBaseline = drop,
                      !.dropFromPeak =
                          calculatePercentDrop(d2.peakVelocity, velocity),
                      !.thresholdsCrossed = checkThresholds(@, drop),
                      !.fatigueZone = determineFatigueZone(drop)]
              ELSE d2
    IN  [data EXCEPT ![movementType] = d3]

-----------------------------------------------------------------------------
(* SetTimingTracker (src/app.js 345-635).  Times are in ms, now is the     *)
(* value of Date.now(); a null time is 0; ratios are in hundredths.        *)

\* SetTimingTracker.reset()
FreshTiming ==
    [currentSet |-> [number |-> 0, startTime |-> 0, endTime |-> 0,
                     repCount |-> 0, isActive |-> FALSE],
     restTimer |-> [startTime |-> 0, isRunning |-> FALSE, elapsed |-> 0],
     history |-> << >>,
     session |-> [totalWorkTime |-> 0, totalRestTime |-> 0,
                  avgWorkTime |-> 0, avgRestTime |-> 0,
                  avgWorkRestRatio |-> 0, setCount |-> 0]]

startNewSet(t, now) ==
    [t EXCEPT !.currentSet =
                  [number |-> t.session.setCount + 1, startTime |-> now,
                   endTime |-> 0, repCount |-> 0, isActive |-> TRUE]]

startRestTimer(t, now) ==
    [t EXCEPT !.restTimer =
                  [startTime |-> now, isRunning |-> TRUE, elapsed |-> 0]]

\* stopRestTimer that records the rest and leaves the timer running
stopRestTimerKeepsRunning(t, now) ==
    IF ~t.restTimer.isRunning THEN t
    ELSE [t EXCEPT !.restTimer.elapsed = now - t.restTimer.startTime]

stopRestTimer(t, now) ==
    IF ~t.restTimer.isRunning THEN t
    ELSE [t EXCEPT !.restTimer.elapsed = now - t.restTimer.startTime,
                   !.restTimer.isRunning = FALSE]

updateSessionAverages(t) ==
    IF t.session.setCount = 0 THEN t
    ELSE
    LET avgWork == RoundDiv(t.session.totalWorkTime, t.session.setCount)
        withRest == SelectSeq(t.history, LAMBDA s : s.restBefore > 0)
        rests == [i \in 1..Len(withRest) |-> withRest[i].restBefore]
        avgRest == RoundDiv(SumSeq(rests), Len(withRest))
    IN  IF Len(withRest) > 0
        THEN [t EXCEPT !.session.avgWorkTime = avgWork,
                       !.session.avgRestTime = avgRest,
                       !.session.avgWorkRestRatio =
                           IF avgRest = 0 THEN 0
                           ELSE RoundDiv(100 * avgWork, avgRest)]
        ELSE [t EXCEPT !.session.avgWorkTime = avgWork]

\* onRep that leaves a running rest timer running
onRepKeepsResting(t, now) ==
    LET t1 == IF t.restTimer.isRunning THEN startNewSet(t, now) ELSE t
        t2 == IF ~t1.currentSet.isActive THEN startNewSet(t1, now) ELSE t1
    IN  [t2 EXCEPT !.currentSet.repCount = @ + 1]

\* onRep that adds the rep to the set that was closed when the rest began
onRepContinuesClosedSet(t, now) ==
    LET t1 == IF t.restTimer.isRunning
              THEN [stopRestTimer(t, now) EXCEPT !.currentSet.isActive = TRUE]
              ELSE t
        t2 == IF ~t1.currentSet.isActive THEN startNewSet(t1, now) ELSE t1
    IN  [t2 EXCEPT !.currentSet.repCount = @ + 1]

onRep(t, now) ==
    LET t1 == IF t.restTimer.isRunning
              THEN startNewSet(stopRestTimer(t, now), now) ELSE t
        t2 == IF ~t1.currentSet.isActive THEN startNewSet(t1, now) ELSE t1
    IN  [t2 EXCEPT !.currentSet.repCount = @ + 1]

\* onSetEnd that measures the rest up to the end of the set
onSetEndRestToEnd(t, now) ==
    IF ~t.currentSet.isActive \/ t.currentSet.repCount = 0 THEN t
    ELSE
    LET setDuration == now - t.currentSet.startTime
        restBeforeSet ==
            IF Len(t.history) > 0
            THEN now - t.history[Len(t.history)].endTime
            ELSE 0
        completedSet ==
            [number |-> t.currentSet.number, duration |-> setDuration,
             repCount |-> t.currentSet.repCount,
             restBefore |-> restBeforeSet,
             workRestRatio |->
                 IF restBeforeSet > 0
                 THEN RoundDiv(100 * setDuration, restBeforeSet) ELSE 0,
             startTime |-> t.currentSet.startTime, endTime |-> now]
        t1 == [t EXCEPT
                 !.currentSet.endTime = now,
                 !.currentSet.isActive = FALSE,
                 !.history = Append(@, completedSet),
                 !.session.setCount = @ + 1,
                 !.session.totalWorkTime = @ + setDuration,
                 !.session.totalRestTime =
                     IF restBeforeSet > 0 THEN @ + restBeforeSet ELSE @]
    IN  startRestTimer(updateSessionAverages(t1), now)

\* onSetEnd whose guard tests the rep count only
onSetEndIgnoresActive(t, now) ==
    IF t.currentSet.repCount = 0 THEN t
    ELSE
    LET setDuration == now - t.currentSet.startTime
        restBeforeSet ==
            IF Len(t.history) > 0
            THEN t.currentSet.startTime - t.history[Len(t.history)].endTime
            ELSE 0
        completedSet ==
            [number |-> t.currentSet.number, duration |-> setDuration,
             repCount |-> t.currentSet.repCount,
             restBefore |-> restBeforeSet,
             workRestRatio |->
                 IF restBeforeSet > 0
                 THEN RoundDiv(100 * setDuration, restBeforeSet) ELSE 0,
             startTime |-> t.currentSet.startTime, endTime |-> now]
        t1 == [t EXCEPT
                 !.currentSet.endTime = now,
                 !.currentSet.isActive = FALSE,
                 !.history = Append(@, completedSet),
                 !.session.setCount = @ + 1,
                 !.session.totalWorkTime = @ + setDuration,
                 !.session.totalRestTime =
                     IF restBeforeSet > 0 THEN @ + restBeforeSet ELSE @]
    IN  startRestTimer(updateSessionAverages(t1), now)

\* onSetEnd(): the tracker after the call; nothing changes (null is
\* returned) when no set is active or the set has no rep
onSetEnd(t, now) ==
    IF ~t.currentSet.isActive \/ t.currentSet.repCount = 0 THEN t
    ELSE
    LET setDuration == now - t.currentSet.startTime
        restBeforeSet ==
            IF Len(t.history) > 0
            THEN t.currentSet.startTime - t.history[Len(t.history)].endTime
            ELSE 0
        completedSet ==
            [number |-> t.currentSet.number, duration |-> setDuration,
             repCount |-> t.currentSet.repCount,
             restBefore |-> restBeforeSet,
             workRestRatio |->
                 IF restBeforeSet > 0
                 THEN RoundDiv(100 * setDuration, restBeforeSet) ELSE 0,
             startTime |-> t.currentSet.startTime, endTime |-> now]
        t1 == [t EXCEPT
                 !.currentSet.endTime = now,
                 !.currentSet.isActive = FALSE,
                 !.history = Append(@, completedSet),
                 !.session.setCount = @ + 1,
                 !.session.totalWorkTime = @ + setDuration,
                 !.session.totalRestTime =
                     IF restBeforeSet > 0 THEN @ + restBeforeSet ELSE @]
    IN  startRestTimer(updateSessionAverages(t1), now)

-----------------------------------------------------------------------------
(* The first application (src/app.js 1745-2230): buttons and masterLoop    *)
(* around the first VBTStateMachine.                                       *)

\* the app object after initializeApp and startCamera.  app.history[type]
\* holds the same velocities as fatigueTracker.data[type].velocities.
FreshApp ==
    [isTestRunning |-> FALSE, totalReps |-> 0, lastMove |-> "READY",
     fatigueTracker |-> FreshFatigue, timingTracker |-> FreshTiming]

\* record(m)
record(a, m, now) ==
    [a EXCEPT !.totalReps = @ + 1,
              !.lastMove = m.type,
              !.fatigueTracker = addRep(@, m.type, m.velocity),
              !.timingTracker = onRep(@, now)]

\* onStandingReset()
onStandingReset(a, now) ==
    [a EXCEPT !.timingTracker = onSetEnd(@, now)]

\* the profile of a subject 70 inches tall captured standing at home: the
\* last of CALIBRATION_FRAMES captureFrame calls on HomePose
CalibratedSys ==
    captureFrame(
        [setUserHeight(FreshCalSys, 70) EXCEPT
           !.framesCaptured = CALIBRATION_FRAMES - 1,
           !.ankleToNosePixelSamples =
               [i \in 1..(CALIBRATION_FRAMES - 1) |->
                   HomePose.LEFT.ANKLE[2] + HomePose.RIGHT.ANKLE[2]
                       - 2 * HomePose.LEFT.NOSE[2]]],
        HomePose).state

\* the subject crouches with the hands at the neutral offset: the shoulders
\* and the nose come down two rows
CrouchPose ==
    [s \in Sides |->
        [HomePose[s] EXCEPT !.SHOULDER = <<@[1], @[2] + 2>>,
                            !.NOSE = <<@[1], @[2] + 2>>]]

\* poses fed to the first engine: the left arm works
Poses1 ==
    {Pose(a, "HOME") : a \in {"HOME", "LOW", "RACK", "LOCK"}}
        \cup {CrouchPose}

\* readings of Date.now(), ms
Clocks == {1000}

\* reps recorded in one session
MaxReps == 1

\* both wrists at the neutral offset and the torso upright, from the
\* smoothed landmarks of a frame
StandingAtHome(sm, cd) ==
    /\ \A s \in Sides :
           100 * Abs(60 * (sm[s].WRIST[2] - sm[s].HIP[2])
                       - cd.neutralWristOffset)
               < 10 * 60 * canvasHeight
    /\ 100 * Abs(sm.LEFT.SHOULDER[2] - sm.LEFT.HIP[2])
           > 85 * cd.maxTorsoLength

\* observer of Spec1.  homeRun: consecutive processed frames standing at
\* home since the last reset; firedFrom: the phase before the frame.
FreshObs1 == [op |-> "none", homeRun |-> 0, firedFrom |-> "none",
              handlerCalls |-> 0]

Init1 ==
    /\ state = FreshState1
    /\ calibrationData = FreshCalibrationData
    /\ result = NoResult
    /\ threw = FALSE
    /\ calSys = FreshCalSys
    /\ obs = FreshObs1
    /\ app = FreshApp
    /\ chain = NoChain

WithinCaps1(st) ==
    /\ st.rackHoldFrames <= RACK_HOLD_FRAMES + HoldPast
    /\ st.lockoutHoldFrames <= OVERHEAD_HOLD_FRAMES + HoldPast

\* calibrate button and CALIBRATION_FRAMES frames standing at home, before
\* the test is started
Calibrate1 ==
    /\ ~app.isTestRunning
    /\ calSys = FreshCalSys
    /\ state = FreshState1
    /\ calSys' = CalibratedSys
    /\ UNCHANGED <<state, calibrationData, result, threw, obs, app, chain>>

\* toggleTest(), START
ToggleTest ==
    /\ ~app.isTestRunning
    /\ app' = [app EXCEPT !.isTestRunning = ~@]
    /\ UNCHANGED <<state, calibrationData, result, threw, calSys, obs, chain>>

\* masterLoop on a detected pose
Frame1(pose, now) ==
    /\ app.isTestRunning
    /\ ~calibrationData.isCalibrated => pose = HomePose
    /\ \E cap \in {IF calSys.phase = "CAPTURING"
                   THEN captureFrame(calSys, pose)
                   ELSE CalReturn(calSys, "null", FALSE)} :
       /\ calSys' = cap.state
       /\ IF cap.threw
          THEN /\ threw' = TRUE
               /\ UNCHANGED <<state, calibrationData, result, obs, app>>
          ELSE \E out \in {update1(state, calibrationData, calSys', pose, 125)} :
               /\ WithinCaps1(out.state)
               /\ state' = out.state
               /\ calibrationData' = out.calibrationData
               /\ result' = out.result
               /\ threw' = out.threw
               /\ LET a1 == IF out.boundary > 0
                            THEN onStandingReset(app, now) ELSE app
                      a2 == IF out.result.type # "null"
                            THEN record(a1, out.result, now) ELSE a1
                      sm == smoothLandmarks(state.smoothedLandmarks, pose)
                      base == IF obs.homeRun > RESET_DURATION_FRAMES
                              THEN 0 ELSE obs.homeRun
                  IN  /\ a2.totalReps <= MaxReps
                      /\ app' = a2
                      /\ obs' = [op |-> "frame",
                                 homeRun |->
                                     IF ~calibrationData.isCalibrated THEN 0
                                     ELSE IF StandingAtHome(sm, calibrationData)
                                     THEN base + 1 ELSE 0,
                                 firedFrom |-> state.phase,
                                 handlerCalls |-> out.boundary]
    /\ UNCHANGED chain

\* resetSession()
Reset1 ==
    /\ calibrationData.isCalibrated
    /\ state # FreshState1 \/ app.totalReps > 0
    /\ state' = FreshState1
    /\ app' = [FreshApp EXCEPT !.isTestRunning = app.isTestRunning]
    /\ result' = NoResult
    /\ threw' = FALSE
    /\ obs' = FreshObs1
    /\ UNCHANGED <<calibrationData, calSys, chain>>

Next1 ==
    \/ Calibrate1
    \/ ToggleTest
    \/ \E pose \in Poses1, now \in Clocks : Frame1(pose, now)
    \/ Reset1

Spec1 == Init1 /\ [][Next1]_vars

\* the fields of the engine state the standing reset is said to reinitialise
ResetFields ==
    {"phase", "lockedSide", "startedFromRack", "startedBelowHip",
     "startedFromOverhead", "reachedRack", "reachedOverhead",
     "reachedLockout", "reachedElbowExtension", "reachedSwingHeight",
     "wentBelowHip", "elbowStayedExtended", "rackHoldFrames",
     "lockoutHoldFrames", "settlingFrames", "resetProgress",
     "currentRepPeak", "pendingMovement"}

-----------------------------------------------------------------------------
(* VelocityFatigueTracker driven through its public methods: addRep as     *)
(* record() calls it, reset() as resetSession() calls it, and resetSet().  *)

\* VelocityFatigueTracker.resetSet(): peakVelocity is kept
resetSet(data) ==
    [m \in Movements |->
        [FreshFatigue[m] EXCEPT !.peakVelocity = data[m].peakVelocity]]

\* movement types passed to addRep: two tracked and one the tracker does
\* not know
FedMovements == {"PRESS", "SWING", "JERK"}

\* peak velocities passed to addRep, mm/s
FedVelocities == {0, 650, 1000}

\* addRep calls in one run
MaxAdds == 6

\* observer of the tracker.  fed: the velocities passed per movement since
\* the last reset; calls: onThresholdCrossed calls per movement and
\* threshold since the last reset.
FreshObsFatigue ==
    [op |-> "none", total |-> 0,
     fed |-> [m \in Movements |-> << >>],
     calls |-> [m \in Movements |-> [t \in {10, 20, 30} |-> 0]]]

InitFatigue ==
    /\ state = FreshState1
    /\ calibrationData = FreshCalibrationData
    /\ result = NoResult
    /\ threw = FALSE
    /\ calSys = FreshCalSys
    /\ obs = FreshObsFatigue
    /\ app = FreshApp
    /\ chain = NoChain

\* fatigueTracker.addRep(m, v); every push onto thresholdsCrossed is
\* followed by one onThresholdCrossed call
AddRep(m, v) ==
    /\ obs.total < MaxAdds
    /\ \E after \in {addRep(app.fatigueTracker, m, v)} :
       /\ app' = [app EXCEPT !.fatigueTracker = after]
       /\ obs' = [obs EXCEPT
                    !.op = "addRep",
                    !.total = @ + 1,
                    !.fed = [k \in Movements |->
                                IF k = m THEN Append(@[k], v) ELSE @[k]],
                    !.calls =
                        [k \in Movements |-> [t \in {10, 20, 30} |->
                            LET old == app.fatigueTracker[k].thresholdsCrossed
                                new == after[k].thresholdsCrossed
                            IN  @[k][t] + Cardinality(
                                    {i \in (Len(old) + 1)..Len(new) :
                                        new[i] = t})]]]
    /\ UNCHANGED <<state, calibrationData, result, threw, calSys, chain>>

\* fatigueTracker.reset()
FatigueReset ==
    /\ app.fatigueTracker # FreshFatigue
    /\ app' = [app EXCEPT !.fatigueTracker = FreshFatigue]
    /\ obs' = [FreshObsFatigue EXCEPT !.op = "reset", !.total = obs.total]
    /\ UNCHANGED <<state, calibrationData, result, threw, calSys, chain>>

\* fatigueTracker.resetSet()
FatigueResetSet ==
    /\ app.fatigueTracker # FreshFatigue
    /\ obs.op # "reset"
    /\ app' = [app EXCEPT !.fatigueTracker = resetSet(@)]
    /\ obs' = [FreshObsFatigue EXCEPT !.op = "reset", !.total = obs.total]
    /\ UNCHANGED <<state, calibrationData, result, threw, calSys, chain>>

NextFatigue ==
    \/ \E m \in FedMovements, v \in FedVelocities : AddRep(m, v)
    \/ FatigueReset
    \/ FatigueResetSet

SpecFatigue == InitFatigue /\ [][NextFatigue]_vars

\* C11: per movement type and reset epoch, baselineVelocity is null before
\* the baselineReps-th addRep of that type, is the mean of the first
\* baselineReps velocities of that type from that call on, and no later
\* addRep of any type changes it.
C11_BaselineOnce ==
    [][\A m \in Movements :
           LET fed == obs'.fed[m]
               base == app'.fatigueTracker[m].baselineVelocity
           IN  /\ Len(fed) < baselineReps => base = NoVelocity
               /\ Len(fed) >= baselineReps =>
                      2 * Abs(baselineReps * base
                                - SumSeq(SubSeq(fed, 1, baselineReps)))
                          <= baselineReps
               /\ (Len(obs.fed[m]) >= baselineReps /\ obs'.op = "addRep") =>
                      base = app.fatigueTracker[m].baselineVelocity]_vars

\* a baseline of mixed velocities was set and two more reps of that type
\* and reps of another type followed
C11_Witness ==
    /\ obs.op = "addRep"
    /\ Len(obs.fed["PRESS"]) = baselineReps + 2
    /\ Len(obs.fed["SWING"]) = 1
    /\ app.fatigueTracker["PRESS"].baselineVelocity = 883
    /\ app.fatigueTracker["PRESS"].currentVelocity = 0


\* C12: per movement type and reset epoch, thresholdsCrossed only grows at
\* its end, holds no threshold twice and is in ascending order, and
\* onThresholdCrossed has been called at most once per threshold.
C12_ThresholdsOnce ==
    [][\A m \in Movements :
           LET old == app.fatigueTracker[m].thresholdsCrossed
               new == app'.fatigueTracker[m].thresholdsCrossed
           IN  /\ obs'.op # "reset" =>
                      /\ Len(new) >= Len(old)
                      /\ SubSeq(new, 1, Len(old)) = old
               /\ \A i, j \in 1..Len(new) : i < j => new[i] < new[j]
               /\ \A t \in {10, 20, 30} : obs'.calls[m][t] <= 1]_vars

\* the 10% threshold was crossed on one rep, 20% and 30% on the next, and
\* the rep after that was back at the baseline
C12_Witness ==
    /\ obs.op = "addRep"
    /\ app.fatigueTracker["PRESS"].thresholdsCrossed = <<10, 20, 30>>
    /\ obs.fed["PRESS"] = <<1000, 650, 650, 650, 0, 1000>>
    /\ app.fatigueTracker["PRESS"].dropFromBaseline = 0
    /\ \A t \in {10, 20, 30} : obs.calls["PRESS"][t] = 1


-----------------------------------------------------------------------------
(* SetTimingTracker driven as the first application drives it: onRep from  *)
(* record(), onSetEnd from onStandingReset(), reset() from resetSession(), *)
(* with Date.now() advancing between the calls.                            *)

\* the value onSetEnd returns: null (the empty sequence) or the completed
\* set record (a sequence of one record)
onSetEndReturns(t, now) ==
    IF ~t.currentSet.isActive \/ t.currentSet.repCount = 0 THEN << >>
    ELSE LET h == onSetEnd(t, now).history IN <<h[Len(h)]>>

\* Date.now() at the start of the session and its last reading, ms
FirstClock == 1000
MaxClock == 5000

\* time between two readings of Date.now(), ms
ClockSteps == {1000, 2000}

\* onRep calls in one run
MaxTimedReps == 4

\* observer of the tracker.  clock: Date.now(); reps: onRep calls so far;
\* sinceReset: onRep calls since the last reset(); returned: the value of
\* the last onSetEnd; nulls: consecutive onSetEnd calls that returned null.
FreshObsTiming ==
    [op |-> "none", clock |-> FirstClock, reps |-> 0, sinceReset |-> 0,
     returned |-> << >>, nulls |-> 0]

InitTiming ==
    /\ state = FreshState1
    /\ calibrationData = FreshCalibrationData
    /\ result = NoResult
    /\ threw = FALSE
    /\ calSys = FreshCalSys
    /\ obs = FreshObsTiming
    /\ app = FreshApp
    /\ chain = NoChain

\* time passes
Tick(d) ==
    /\ obs.clock + d <= MaxClock
    /\ obs' = [obs EXCEPT !.op = "tick", !.clock = @ + d]
    /\ UNCHANGED <<state, calibrationData, result, threw, calSys, app, chain>>

\* timingTracker.onRep()
OnRep ==
    /\ obs.reps < MaxTimedReps
    /\ app' = [app EXCEPT !.timingTracker = onRep(@, obs.clock)]
    /\ obs' = [obs EXCEPT !.op = "onRep", !.reps = @ + 1,
                          !.sinceReset = @ + 1, !.nulls = 0]
    /\ UNCHANGED <<state, calibrationData, result, threw, calSys, chain>>

\* timingTracker.onSetEnd()
OnSetEnd ==
    /\ obs.nulls < 2
    /\ \E ret \in {onSetEndReturns(app.timingTracker, obs.clock)} :
       /\ app' = [app EXCEPT !.timingTracker = onSetEnd(@, obs.clock)]
       /\ obs' = [obs EXCEPT !.op = "onSetEnd", !.returned = ret,
                             !.nulls = IF ret = << >> THEN @ + 1 ELSE 0]
    /\ UNCHANGED <<state, calibrationData, result, threw, calSys, chain>>

\* timingTracker.reset()
TimingReset ==
    /\ app.timingTracker # FreshTiming
    /\ app' = [app EXCEPT !.timingTracker = FreshTiming]
    /\ obs' = [obs EXCEPT !.op = "reset", !.sinceReset = 0, !.nulls = 0]
    /\ UNCHANGED <<state, calibrationData, result, threw, calSys, chain>>

NextTiming ==
    \/ \E d \in ClockSteps : Tick(d)
    \/ OnRep
    \/ OnSetEnd
    \/ TimingReset

SpecTiming == InitTiming /\ [][NextTiming]_vars

\* C13: an onSetEnd call made while no set is active or the current set has
\* no rep returns null and leaves the whole tracker (history, session,
\* currentSet, restTimer) as it was.
C13_EmptyBoundaryIgnored ==
    [][(/\ obs'.op = "onSetEnd"
        /\ \/ ~app.timingTracker.currentSet.isActive
           \/ app.timingTracker.currentSet.repCount = 0) =>
           /\ obs'.returned = << >>
           /\ app'.timingTracker = app.timingTracker]_vars

\* two boundary events in a row came after a set had been closed, at a
\* later time than the start of the rest timer
C13_Witness ==
    /\ obs.op = "onSetEnd"
    /\ obs.nulls = 2
    /\ Len(app.timingTracker.history) = 1
    /\ app.timingTracker.restTimer.isRunning
    /\ app.timingTracker.restTimer.startTime < obs.clock


\* C14: onRep stops a running rest timer and starts a new set; with no
\* active set it starts a new set; otherwise it keeps the active set.  The
\* resulting set is active and its repCount is one more than that of the set
\* it continues, 1 for a set it starts; number and startTime of a continued
\* set, the history and the session totals are unchanged.
C14_RepStartsOrContinuesSet ==
    [][obs'.op = "onRep" =>
           LET t == app.timingTracker
               u == app'.timingTracker
               started == /\ u.currentSet.number = t.session.setCount + 1
                          /\ u.currentSet.startTime = obs.clock
                          /\ u.currentSet.repCount = 1
           IN  /\ u.currentSet.isActive
               /\ u.history = t.history
               /\ u.session = t.session
               /\ IF t.restTimer.isRunning
                  THEN /\ ~u.restTimer.isRunning
                       /\ u.restTimer.elapsed
                              = obs.clock - t.restTimer.startTime
                       /\ started
                  ELSE /\ u.restTimer = t.restTimer
                       /\ IF ~t.currentSet.isActive
                          THEN started
                          ELSE /\ u.currentSet.number = t.currentSet.number
                               /\ u.currentSet.startTime
                                      = t.currentSet.startTime
                               /\ u.currentSet.repCount
                                      = t.currentSet.repCount + 1]_vars

\* a rep ended a rest of two seconds and started the second set, and a
\* later rep continued that set
C14_Witness ==
    /\ obs.op = "onRep"
    /\ app.timingTracker.currentSet.number = 2
    /\ app.timingTracker.currentSet.repCount = 2
    /\ app.timingTracker.currentSet.startTime < obs.clock
    /\ ~app.timingTracker.restTimer.isRunning
    /\ app.timingTracker.restTimer.elapsed = 2000

\* C15: onSetEnd on an active set with at least one rep appends one record
\* to history, with duration = endTime - startTime, the rep count of the
\* set, and restBefore = startTime of the set - endTime of the previous
\* record (0 for the first record); the set becomes inactive, setCount grows
\* by one and the rest timer is started.  No call other than reset() changes
\* a record already in history.
C15_SetEndAppendsRecord ==
    [][LET t == app.timingTracker
           u == app'.timingTracker
           n == Len(t.history)
       IN  /\ obs'.op # "reset" =>
                  /\ Len(u.history) >= n
                  /\ SubSeq(u.history, 1, n) = t.history
           /\ (/\ obs'.op = "onSetEnd"
               /\ t.currentSet.isActive
               /\ t.currentSet.repCount > 0) =>
                  /\ Len(u.history) = n + 1
                  /\ u.history[n + 1].endTime = obs.clock
                  /\ u.history[n + 1].startTime = t.currentSet.startTime
                  /\ u.history[n + 1].duration
                         = obs.clock - t.currentSet.startTime
                  /\ u.history[n + 1].repCount = t.currentSet.repCount
                  /\ u.history[n + 1].restBefore
                         = IF n = 0 THEN 0
                           ELSE t.currentSet.startTime - t.history[n].endTime
                  /\ obs'.returned = <<u.history[n + 1]>>
                  /\ ~u.currentSet.isActive
                  /\ u.session.setCount = t.session.setCount + 1
                  /\ u.restTimer
                         = [startTime |-> obs.clock, isRunning |-> TRUE,
                            elapsed |-> 0]]_vars

\* a second set of two reps lasting one second was closed after a rest of
\* two seconds
C15_Witness ==
    /\ obs.op = "onSetEnd"
    /\ Len(app.timingTracker.history) = 2
    /\ app.timingTracker.history[2].restBefore = 2000
    /\ app.timingTracker.history[2].duration = 1000
    /\ app.timingTracker.history[2].repCount = 2
    /\ app.timingTracker.history[1].duration > 0
    /\ app.timingTracker.restTimer.isRunning


-----------------------------------------------------------------------------
(* The second engine fed frames at varying intervals: the velocity filter  *)
(* and the peak of a rep.                                                  *)

\* frame intervals, ms: a duplicate frame, a regular frame, a late frame
DuplicateDt == 10
RegularDt == 50
LateDt == 125

\* frames fed after the pose calibration, and duplicate frames among them
MaxVelFrames == 10
MaxDuplicates == 1

\* observer.  frames / duplicates: frames fed since the pose calibration;
\* rejected: the last update ran calculateVelocity with a previous sample
\* and an interval outside [MIN_DT, MAX_DT]; inRep and peakSeen: a rep is
\* under way and the largest |smoothedVy| after any update from the one that
\* entered MOVING on.
FreshObsVel ==
    [op |-> "none", frames |-> 0, duplicates |-> 0, rejected |-> FALSE,
     inRep |-> FALSE, peakSeen |-> 0]

InitVel ==
    /\ state = FreshState
    /\ calibrationData = FreshCalibrationData
    /\ result = NoResult
    /\ threw = FALSE
    /\ calSys = FreshCalSys
    /\ obs = FreshObsVel
    /\ app = NoApp
    /\ chain = NoChain

\* the 30 frames of the pose calibration, standing with the arms down
VelCalibrate ==
    /\ ~calibrationData.isCalibrated
    /\ \E out \in {update(state, calibrationData, calSys, HomePose, LateDt)} :
           EngineSteps(out)
    /\ UNCHANGED <<calSys, obs, app, chain>>

\* masterLoop: update on a pose of the left arm, dt after the previous call
VelFrame(arm, dt) ==
    /\ calibrationData.isCalibrated
    /\ obs.frames < MaxVelFrames
    /\ state.lockedSide = "unknown" => arm = "SWING" /\ dt = LateDt
    /\ dt = DuplicateDt => obs.duplicates < MaxDuplicates
    /\ \E out \in {update(state, calibrationData, calSys,
                          ArmPose("LEFT", arm), dt)} :
       /\ EngineSteps(out)
       /\ LET age == Aged(state, dt).lastWristPos.t
              speed == Abs(out.state.smoothedVy)
              entered == state.phase = "IDLE" /\ out.state.phase = "MOVING"
              closed == out.result.type # "null"
          IN  obs' = [op |-> "frame",
                      frames |-> obs.frames + 1,
                      duplicates |-> obs.duplicates
                          + (IF dt = DuplicateDt THEN 1 ELSE 0),
                      rejected |->
                          /\ out.seen.classified
                          /\ ~IsNull(state.lastWristPos)
                          /\ out.state.calibration # 0
                          /\ (age < MIN_DT \/ age > MAX_DT),
                      inRep |-> IF entered THEN TRUE
                                ELSE IF closed \/ ~out.seen.classified
                                THEN FALSE ELSE obs.inRep,
                      peakSeen |-> IF entered THEN speed
                                   ELSE IF obs.inRep
                                   THEN Max(obs.peakSeen, speed)
                                   ELSE 0]
    /\ UNCHANGED <<calSys, app, chain>>

\* resetSession: app.stateMachine.reset()
VelReset ==
    /\ state.lockedSide # "unknown"
    /\ obs.op # "reset"
    /\ state' = FreshState
    /\ result' = NoResult
    /\ threw' = FALSE
    /\ obs' = [obs EXCEPT !.op = "reset", !.rejected = FALSE,
                          !.inRep = FALSE, !.peakSeen = 0]
    /\ UNCHANGED <<calibrationData, calSys, app, chain>>

NextVel ==
    \/ VelCalibrate
    \/ \E arm \in {"LOW", "SWING"}, dt \in {DuplicateDt, RegularDt, LateDt} :
           VelFrame(arm, dt)
    \/ VelReset

SpecVel == InitVel /\ [][NextVel]_vars

\* C16: an update whose interval since the previous wrist sample is below
\* MIN_DT or above MAX_DT leaves smoothedVy as it was.
C16_RejectedDtKeepsVelocity ==
    [][obs'.rejected => state'.smoothedVy = state.smoothedVy]_vars

\* C17: the velocity of a rep event is the largest |smoothedVy| over the
\* frames from the one that entered MOVING to the one that returned the
\* event, and currentRepPeak does not decrease between them.
C17_PeakOverRep ==
    [][/\ (obs'.op = "frame" /\ result'.type # "null") =>
              result'.velocity = obs'.peakSeen
       /\ (obs'.op = "frame" /\ obs.inRep /\ obs'.inRep) =>
              state'.currentRepPeak >= state.currentRepPeak]_vars


-----------------------------------------------------------------------------
(* The second engine fed held postures of the left arm with interruptions: *)
(* the hold counters of IDLE and of the return to the rack.                *)

\* postures the arm is moved between, and how often it is moved.  REACH is
\* the arm stretched up past the top edge of the frame (the detector reports
\* such landmarks with coordinates outside the image).
HeldArms == {"RACK", "LOCK", "SWING", "LOW", "REACH"}
MaxMoves == 6

HeldPose(arm) ==
    IF arm = "REACH"
    THEN [ArmPose("LEFT", "LOCK") EXCEPT
            !.LEFT.ELBOW = <<ShoulderX("LEFT"), -2>>,
            !.LEFT.WRIST = <<ShoulderX("LEFT"), -7>>]
    ELSE ArmPose("LEFT", arm)

\* observer.  arm / moves: the posture being fed and the number of changes
\* of posture; rackRun / lockRun: consecutive updates, up to the last one,
\* on which update saw the rack / lockout posture, counted from the last
\* reset up to RACK_HOLD_FRAMES / OVERHEAD_HOLD_FRAMES; sinceSnatch: updates
\* since the one that returned SNATCH, NoSnatch when there was none or more
\* than SNATCH_SETTLING_FRAMES; seen: the posture tests of the last update.
NoSnatch == -1

FreshObsHold ==
    [op |-> "none", arm |-> "HOME", moves |-> 0, rackRun |-> 0,
     lockRun |-> 0, sinceSnatch |-> NoSnatch, seen |-> NoPosture]

InitHold ==
    /\ state = FreshState
    /\ calibrationData = FreshCalibrationData
    /\ result = NoResult
    /\ threw = FALSE
    /\ calSys = FreshCalSys
    /\ obs = FreshObsHold
    /\ app = NoApp
    /\ chain = NoChain

\* masterLoop: update on a pose of the left arm; the first posture after
\* the pose calibration or a reset raises the arm so that LEFT is locked
HoldFrame(arm) ==
    /\ calibrationData.isCalibrated
    /\ state.lockedSide = "unknown" => arm = "SWING"
    /\ arm # obs.arm => obs.moves < MaxMoves
    /\ \E out \in {update(state, calibrationData, calSys, HeldPose(arm),
                          LateDt)} :
       /\ EngineSteps(out)
       /\ obs' = [op |-> "frame",
                  arm |-> arm,
                  moves |-> obs.moves + (IF arm # obs.arm THEN 1 ELSE 0),
                  rackRun |-> IF out.seen.inRackPosition
                              THEN Min(obs.rackRun + 1, RACK_HOLD_FRAMES)
                              ELSE 0,
                  lockRun |-> IF out.seen.inLockout
                              THEN Min(obs.lockRun + 1, OVERHEAD_HOLD_FRAMES)
                              ELSE 0,
                  sinceSnatch |->
                      IF out.result.type = "SNATCH" THEN 0
                      ELSE IF obs.sinceSnatch
                                  \in {NoSnatch, SNATCH_SETTLING_FRAMES}
                      THEN NoSnatch
                      ELSE obs.sinceSnatch + 1,
                  seen |-> out.seen]
    /\ UNCHANGED <<calSys, app, chain>>

\* resetSession: app.stateMachine.reset()
HoldReset ==
    /\ state.lockedSide # "unknown"
    /\ obs.moves < MaxMoves
    /\ state' = FreshState
    /\ result' = NoResult
    /\ threw' = FALSE
    /\ obs' = [FreshObsHold EXCEPT !.op = "reset", !.moves = obs.moves + 1]
    /\ UNCHANGED <<calibrationData, calSys, app, chain>>

NextHold ==
    \/ VelCalibrate
    \/ \E arm \in HeldArms : HoldFrame(arm)
    \/ HoldReset

SpecHold == InitHold /\ [][NextHold]_vars

\* C18: in RETURNING with PRESS pending, the PRESS event is returned only by
\* an update that ends a run of at least RACK_HOLD_FRAMES consecutive
\* updates in the rack posture, and an update outside the rack posture
\* puts rackHoldFrames back to 0.
C18_PressAfterSustainedRack ==
    [][(/\ obs'.op = "frame"
        /\ state.phase = "RETURNING"
        /\ state.pendingMovement = "PRESS") =>
           /\ result'.type = "PRESS" => obs'.rackRun >= RACK_HOLD_FRAMES
           /\ obs'.rackRun = 0 => state'.rackHoldFrames = 0]_vars

\* C19: an update in IDLE sets startedFromRack only when it ends a run of at
\* least RACK_HOLD_FRAMES consecutive updates in the rack posture, and sets
\* startedFromOverhead only when it ends a run of at least
\* OVERHEAD_HOLD_FRAMES consecutive updates in the lockout posture.
C19_StartNeedsSustainedHold ==
    [][(obs'.op = "frame" /\ state.phase = "IDLE") =>
           /\ (~state.startedFromRack /\ state'.startedFromRack) =>
                  obs'.rackRun >= RACK_HOLD_FRAMES
           /\ (~state.startedFromOverhead /\ state'.startedFromOverhead) =>
                  obs'.lockRun >= OVERHEAD_HOLD_FRAMES]_vars


-----------------------------------------------------------------------------
(* Two engines fed the same poses at different frame intervals.            *)

\* postures the arm is moved between in both runs, and how often
TwinArms == {"RACK", "LOCK", "SWING", "LOW"}
MaxTwinMoves == 4

\* frames on which the interval of the second run differs from the first's
MaxOddFrames == 1

\* frame intervals, ms: the first run is fed late frames only, the
\* second at any of a duplicate, a regular and a late frame
FirstDts == {LateDt}
TwinDts == {DuplicateDt, RegularDt, LateDt}

\* the second run: its engine state, calibrationData and last return value
FreshTwin ==
    [state |-> FreshState, calibrationData |-> FreshCalibrationData,
     result |-> NoResult, threw |-> FALSE]

\* observer.  arm / moves: the posture being fed to both runs and the
\* number of changes of posture; odd: frames on which the two runs had
\* different intervals, outOfBand: one of them outside [MIN_DT, MAX_DT]
\* on a frame that ran calculateVelocity with a previous sample.
FreshObsTwin ==
    [op |-> "none", arm |-> "HOME", moves |-> 0, odd |-> 0,
     outOfBand |-> FALSE, twin |-> FreshTwin]

InitTwin ==
    /\ state = FreshState
    /\ calibrationData = FreshCalibrationData
    /\ result = NoResult
    /\ threw = FALSE
    /\ calSys = FreshCalSys
    /\ obs = FreshObsTwin
    /\ app = NoApp
    /\ chain = NoChain

\* what the two runs are compared on: everything the engine keeps except
\* the filtered velocity, the peak of the rep and the time of the last
\* wrist sample
PhaseView(st) ==
    [st EXCEPT !.smoothedVy = 0, !.currentRepPeak = 0,
               !.lastWristPos = IF IsNull(@) THEN @ ELSE [@ EXCEPT !.t = 0]]

\* masterLoop in both runs: update on the same pose of the left arm, dtA
\* after the previous call in the first run and dtB in the second
TwinFrame(arm, dtA, dtB) ==
    \E pose \in {IF arm = "HOME" THEN HomePose ELSE ArmPose("LEFT", arm)} :
    \E outA \in {update(state, calibrationData, calSys, pose, dtA)},
       outB \in {update(obs.twin.state, obs.twin.calibrationData, calSys,
                        pose, dtB)} :
       /\ dtA # dtB => obs.odd < MaxOddFrames
       /\ EngineSteps(outA)
       /\ WithinCaps(outB.state)
       /\ LET ageA == Aged(state, dtA).lastWristPos.t
              ageB == Aged(obs.twin.state, dtB).lastWristPos.t
          IN  obs' = [op |-> "frame",
                      arm |-> arm,
                      moves |-> obs.moves + (IF arm # obs.arm THEN 1 ELSE 0),
                      odd |-> obs.odd + (IF dtA # dtB THEN 1 ELSE 0),
                      outOfBand |->
                          \/ obs.outOfBand
                          \/ /\ outA.seen.classified
                             /\ ~IsNull(state.lastWristPos)
                             /\ dtA # dtB
                             /\ \/ ageA < MIN_DT \/ ageA > MAX_DT
                                \/ ageB < MIN_DT \/ ageB > MAX_DT,
                      twin |-> [state |-> outB.state,
                                calibrationData |-> outB.calibrationData,
                                result |-> outB.result,
                                threw |-> outB.threw]]
       /\ UNCHANGED <<calSys, app, chain>>

\* the 30 frames of the pose calibration, standing with the arms down
TwinCalibrate(dtA, dtB) ==
    /\ ~calibrationData.isCalibrated
    /\ TwinFrame("HOME", dtA, dtB)

\* a frame with the left arm in a posture; the first posture after the pose
\* calibration raises the arm so that LEFT is locked
TwinArmFrame(arm, dtA, dtB) ==
    /\ calibrationData.isCalibrated
    /\ state.lockedSide = "unknown" => arm = "SWING"
    /\ arm # obs.arm => obs.moves < MaxTwinMoves
    /\ TwinFrame(arm, dtA, dtB)

NextTwin ==
    \/ \E dtA \in FirstDts, dtB \in TwinDts : TwinCalibrate(dtA, dtB)
    \/ \E arm \in TwinArms, dtA \in FirstDts, dtB \in TwinDts :
           TwinArmFrame(arm, dtA, dtB)

SpecTwin == InitTwin /\ [][NextTwin]_vars

\* C21: after every frame the two runs agree on the phase, the starting
\* and rep flags, the hold counters and everything else but the velocity
\* values, and they return rep events of the same type on the same frames.
C21_SamePhases ==
    /\ PhaseView(state) = PhaseView(obs.twin.state)
    /\ calibrationData = obs.twin.calibrationData
    /\ result.type = obs.twin.result.type
    /\ result.quality = obs.twin.result.quality
    /\ threw = obs.twin.threw

\* both runs return the same event on a frame on which their velocities
\* differ, after frames with different intervals, one outside the band
C21_Witness ==
    /\ obs.odd > 0
    /\ obs.outOfBand
    /\ result.type # "null"
    /\ result.velocity # obs.twin.result.velocity
    /\ state.smoothedVy # obs.twin.state.smoothedVy



-----------------------------------------------------------------------------
(* The CalibrationSystem on a canvas of 800 pixels: the scale it derives   *)
(* from the height and the 60 accepted ankle-to-nose distances.  A frame   *)
(* is given by its ankle-to-nose distance in whole pixels; every landmark  *)
(* is present, and bodySegments are left out.  pixelToCmRatio is kept in   *)
(* millionths of a centimetre per pixel under this specification.          *)

\* app.canvas.height, pixels
ScaleCanvas == 800

\* pixelToCmRatio units per hundredth of a centimetre per pixel
RatioUnit == 10000

\* ankle-to-nose distances of the frames, pixels: the distances the subject
\* holds, distances of single outlier frames, and one that is not upright
HeldDistances == {500, 640}
OutlierDistances == {240, 800}
SlumpedDistance == 200

\* calibration runs (calibrate button to COMPLETE) and outlier frames per run
MaxRuns == 2
MaxScaleOutliers == 1

\* variant: the mean of the samples in place of the median
finalizeCalibrationMean(cs) ==
    LET n == Len(cs.ankleToNosePixelSamples)
        SumTo[i \in 0..n] ==
            IF i = 0 THEN 0 ELSE SumTo[i - 1] + cs.ankleToNosePixelSamples[i]
    IN  [cs EXCEPT !.pixelToCmRatio =
                       RoundDiv(cs.ankleToNoseCm * RatioUnit,
                                RoundDiv(SumTo[n], n)),
                   !.phase = "COMPLETE"]

\* finalizeCalibration on whole-pixel samples: median and ratio
finalizeCalibrationPx(cs) ==
    LET sortedSamples ==
            SortSeq(cs.ankleToNosePixelSamples, LAMBDA a, b : a < b)
        medianAnkleToNosePixels == sortedSamples[(Len(sortedSamples) \div 2) + 1]
    IN  [cs EXCEPT !.pixelToCmRatio =
                       RoundDiv(cs.ankleToNoseCm * RatioUnit,
                                medianAnkleToNosePixels),
                   !.phase = "COMPLETE"]

\* captureFrame(pose, canvasHeight) on a pose with both ankles and the nose,
\* ankleToNosePixels apart
captureFramePx(cs, ankleToNosePixels, canvasPx) ==
    IF cs.phase # "CAPTURING" THEN cs
    ELSE IF 10 * ankleToNosePixels < 3 * canvasPx THEN cs
    ELSE LET c1 == [cs EXCEPT
                      !.ankleToNosePixelSamples = Append(@, ankleToNosePixels),
                      !.framesCaptured = @ + 1]
         IN  IF c1.framesCaptured >= CALIBRATION_FRAMES
             THEN finalizeCalibrationPx(c1)
             ELSE c1

\* observer.  held: the distance the subject holds in this run; outliers:
\* accepted frames of this run with another distance; runs: runs started.
InitScale ==
    /\ state = FreshState
    /\ calibrationData = FreshCalibrationData
    /\ result = NoResult
    /\ threw = FALSE
    /\ calSys = FreshCalSys
    /\ obs = [op |-> "none", held |-> 0, outliers |-> 0, runs |-> 0]
    /\ app = NoApp
    /\ chain = NoChain

\* calibrate button: app.calibrationSystem.setUserHeight(heightInches); the
\* subject then stands at some distance from the camera
ScaleSetHeight(inches, held) ==
    /\ calSys.phase = "WAITING_FOR_HEIGHT"
    /\ obs.runs < MaxRuns
    /\ calSys' = setUserHeight(calSys, inches)
    /\ obs' = [op |-> "setUserHeight", held |-> held, outliers |-> 0,
               runs |-> obs.runs + 1]
    /\ UNCHANGED <<state, calibrationData, result, threw, app, chain>>

\* masterLoop: app.calibrationSystem.captureFrame(pose, app.canvas.height)
ScaleCapture(px) ==
    /\ calSys.phase = "CAPTURING"
    /\ px \in OutlierDistances => obs.outliers < MaxScaleOutliers
    /\ px \in HeldDistances => px = obs.held
    /\ calSys' = captureFramePx(calSys, px, ScaleCanvas)
    /\ obs' = [obs EXCEPT !.op = "captureFrame",
                          !.outliers = @ + (IF px \in OutlierDistances
                                            THEN 1 ELSE 0)]
    /\ UNCHANGED <<state, calibrationData, result, threw, app, chain>>

\* CalibrationSystem.reset() after a completed run
ScaleReset ==
    /\ calSys.phase = "COMPLETE"
    /\ calSys' = FreshCalSys
    /\ obs' = [obs EXCEPT !.op = "reset", !.held = 0, !.outliers = 0]
    /\ UNCHANGED <<state, calibrationData, result, threw, app, chain>>

NextScale ==
    \/ \E inches \in Heights, held \in HeldDistances :
           ScaleSetHeight(inches, held)
    \/ \E px \in HeldDistances \cup OutlierDistances \cup {SlumpedDistance} :
           ScaleCapture(px)
    \/ ScaleReset

SpecScale == InitScale /\ [][NextScale]_vars

\* every accepted sample of the run is the held distance
AllHeld ==
    \A i \in 1..Len(calSys.ankleToNosePixelSamples) :
        calSys.ankleToNosePixelSamples[i] = obs.held

OutlierCount ==
    Cardinality({i \in 1..Len(calSys.ankleToNosePixelSamples) :
                    calSys.ankleToNosePixelSamples[i] # obs.held})

\* C23: when 59 of the 60 accepted samples are v and one, at any position,
\* is another accepted distance, pixelToCmRatio is the ratio that 60 samples
\* all equal to v give.
C23_OneOutlierIgnored ==
    (/\ calSys.phase = "COMPLETE"
     /\ OutlierCount <= 1)
        => calSys.pixelToCmRatio
               = finalizeCalibrationPx(
                     [calSys EXCEPT !.ankleToNosePixelSamples =
                          [i \in 1..CALIBRATION_FRAMES |-> obs.held]]
                 ).pixelToCmRatio

\* a run completed with the largest outlier in the middle of the sequence
C23_Witness ==
    /\ calSys.phase = "COMPLETE"
    /\ OutlierCount = 1
    /\ calSys.ankleToNosePixelSamples[17] = 800
    /\ obs.held = 640
    /\ calSys.pixelToCmRatio * 640 = calSys.ankleToNoseCm * RatioUnit



-----------------------------------------------------------------------------
(* VelocityFatigueTracker fed PRESS reps around a baseline of 2.0 m/s: the *)
(* drop from the baseline, the zone and the thresholds crossed.            *)

\* peak velocities passed to addRep, mm/s: 2.0 m/s, one above it, and the
\* velocities at and just above a drop of 5, 10, 20, 25 and 30% from it
DropVelocities ==
    {0, 1400, 1401, 1500, 1600, 1601, 1800, 1801, 1900, 1901, 2000, 2100}

\* addRep calls in one run
MaxDropAdds == 4

\* record: app.fatigueTracker.addRep("PRESS", m.velocity)
DropAdd(v) ==
    /\ obs.total < MaxDropAdds
    /\ AddRep("PRESS", v)

NextDrop ==
    \/ \E v \in DropVelocities : DropAdd(v)
    \/ FatigueReset
    \/ FatigueResetSet

SpecDrop == InitFatigue /\ [][NextDrop]_vars

\* C24: after addRep('PRESS', v) for v = 2.0, 2.1, 1.9 the PRESS baseline is
\* 2.0 and no threshold is listed; after a fourth addRep('PRESS', 1.5)
\* dropFromBaseline is 25, the zone is HIGH, thresholdsCrossed is [10, 20]
\* and onThresholdCrossed was called once for 10, once for 20, not for 30.
C24_Scenario ==
    LET press == app.fatigueTracker["PRESS"]
    IN  /\ obs.fed["PRESS"] = <<2000, 2100, 1900>> =>
               /\ press.baselineVelocity = 2000
               /\ press.thresholdsCrossed = << >>
        /\ obs.fed["PRESS"] = <<2000, 2100, 1900, 1500>> =>
               /\ press.baselineVelocity = 2000
               /\ press.dropFromBaseline = 2500
               /\ press.fatigueZone = "HIGH"
               /\ press.thresholdsCrossed = <<10, 20>>
               /\ obs.calls["PRESS"][10] = 1
               /\ obs.calls["PRESS"][20] = 1
               /\ obs.calls["PRESS"][30] = 0

\* the four reps of the scenario were added to a fresh tracker
C24_Witness ==
    /\ obs.op = "addRep"
    /\ obs.total = 4
    /\ obs.fed["PRESS"] = <<2000, 2100, 1900, 1500>>
    /\ app.fatigueTracker["PRESS"].repCount = 4
    /\ app.fatigueTracker["PRESS"].fatigueZone = "HIGH"


-----------------------------------------------------------------------------
(* VelocityFatigueTracker constructed with a configured baselineReps: the  *)
(* prediction of the reps remaining until a drop of 20% from the baseline. *)

\* config.baselineReps passed to the constructor (3 is the default)
ConfiguredBaselineReps == {1, 3, 4}

\* peak velocities passed to addRep, mm/s, and addRep calls in one run
PredictVelocities == {0, 1500, 1900, 2000, 2100}
MaxPredictAdds == 5

\* targetDropPercent passed by updateFatigueUI
TargetDrop == 20

\* addRep(movementType, velocity) of a tracker whose config.baselineReps is K
addRepConfigured(K, data, movementType, velocity) ==
    IF movementType \notin Movements THEN data
    ELSE
    LET d0 == data[movementType]
        d1 == [d0 EXCEPT
                 !.velocities = Append(@, velocity),
                 !.currentVelocity = velocity,
                 !.repCount = @ + 1,
                 !.peakVelocity =
                     IF @ = NoVelocity \/ @ = 0 \/ velocity > @
                     THEN velocity ELSE @]
        d2 == IF d1.repCount = K
              THEN [d1 EXCEPT !.baselineVelocity =
                                  calculateAverage(d1.velocities)]
              ELSE d1
        drop == calculatePercentDrop(d2.baselineVelocity, velocity)
        d3 == IF d2.baselineVelocity # NoVelocity /\ d2.baselineVelocity # 0
              THEN [d2 EXCEPT
                      !.dropFromBaseline = drop,
                      !.dropFromPeak =
                          calculatePercentDrop(d2.peakVelocity, velocity),
                      !.thresholdsCrossed = checkThresholds(@, drop),
                      !.fatigueZone = determineFatigueZone(drop)]
              ELSE d2
    IN  [data EXCEPT ![movementType] = d3]

\* Math.ceil(a / b) for whole a and b, b # 0
CeilDiv(a, b) == IF b > 0 THEN -((-a) \div b) ELSE -(a \div (-b))

\* a value returned by predictRepsToThreshold; null is NoPrediction
NoPrediction ==
    [isNull |-> TRUE, repsRemaining |-> 0, predictedRepNumber |-> 0,
     currentRep |-> 0]

\* the least-squares fit of the velocities y[1..n] against the rep index,
\* in whole numbers: with w(i) = 2i - n - 1 and S the sum of the
\* velocities, numerator = num2n / 2n and denominator = den4 / 4 of the
\* source, so the slope is 2 * num2n / (n * den4)
Regression(y) ==
    LET n == Len(y)
        S == SumSeq(y)
        w(i) == 2 * i - n - 1
        Num[i \in 0..n] ==
            IF i = 0 THEN 0 ELSE Num[i - 1] + w(i) * (n * y[i] - S)
        Den[i \in 0..n] == IF i = 0 THEN 0 ELSE Den[i - 1] + w(i) * w(i)
    IN  [n |-> n, S |-> S, num2n |-> Num[n], den4 |-> Den[n]]

\* predictRepsToThreshold without the clamp at zero
predictRepsToThresholdUnclamped(data, movementType, targetDropPercent) ==
    IF movementType \notin Movements THEN NoPrediction
    ELSE
    LET d == data[movementType]
        r == Regression(d.velocities)
        n == r.n
        pNum == (n * d.baselineVelocity * (100 - targetDropPercent)
                   - 100 * r.S) * r.den4
                + 100 * (n + 1) * r.num2n
        pDen == 200 * r.num2n
    IN  IF d.baselineVelocity = NoVelocity \/ d.baselineVelocity = 0 \/ n < 3
        THEN NoPrediction
        ELSE IF r.den4 = 0 THEN NoPrediction
        ELSE IF r.num2n >= 0 THEN NoPrediction
        ELSE [isNull |-> FALSE,
              repsRemaining |-> CeilDiv(pNum - n * pDen, pDen),
              predictedRepNumber |-> CeilDiv(pNum, pDen),
              currentRep |-> n]

\* predictRepsToThreshold(movementType, targetDropPercent).  predictedRep
\* is (targetVelocity - intercept) / slope = pNum / pDen, with
\* targetVelocity = baseline * (1 - target / 100) and
\* intercept = yMean - slope * xMean
predictRepsToThreshold(data, movementType, targetDropPercent) ==
    IF movementType \notin Movements THEN NoPrediction
    ELSE
    LET d == data[movementType]
        r == Regression(d.velocities)
        n == r.n
        pNum == (n * d.baselineVelocity * (100 - targetDropPercent)
                   - 100 * r.S) * r.den4
                + 100 * (n + 1) * r.num2n
        pDen == 200 * r.num2n
    IN  IF d.baselineVelocity = NoVelocity \/ d.baselineVelocity = 0 \/ n < 3
        THEN NoPrediction
        ELSE IF r.den4 = 0 THEN NoPrediction
        ELSE IF r.num2n >= 0 THEN NoPrediction
        ELSE [isNull |-> FALSE,
              repsRemaining |-> Max(0, CeilDiv(pNum - n * pDen, pDen)),
              predictedRepNumber |-> CeilDiv(pNum, pDen),
              currentRep |-> n]

\* observer.  config: the configuration the tracker was constructed with;
\* total: addRep calls made; asked / returned: the movement type of the
\* last predictRepsToThreshold call and what it returned.
InitPredict ==
    /\ state = FreshState1
    /\ calibrationData = FreshCalibrationData
    /\ result = NoResult
    /\ threw = FALSE
    /\ calSys = FreshCalSys
    /\ \E K \in ConfiguredBaselineReps :
           obs = [op |-> "none", config |-> [baselineReps |-> K],
                  total |-> 0, asked |-> "none", returned |-> NoPrediction]
    /\ app = FreshApp
    /\ chain = NoChain

\* record: app.fatigueTracker.addRep("PRESS", m.velocity)
PredictAdd(v) ==
    /\ obs.total < MaxPredictAdds
    /\ app' = [app EXCEPT !.fatigueTracker =
                   addRepConfigured(obs.config.baselineReps, @, "PRESS", v)]
    /\ obs' = [obs EXCEPT !.op = "addRep", !.total = @ + 1,
                          !.asked = "none", !.returned = NoPrediction]
    /\ UNCHANGED <<state, calibrationData, result, threw, calSys, chain>>

\* updateFatigueUI: app.fatigueTracker.predictRepsToThreshold(m, 20)
Predict(m) ==
    /\ obs.op = "addRep"
    /\ obs' = [obs EXCEPT
                 !.op = "predict", !.asked = m,
                 !.returned =
                     predictRepsToThreshold(app.fatigueTracker, m, TargetDrop)]
    /\ UNCHANGED <<state, calibrationData, result, threw, calSys, app, chain>>

NextPredict ==
    \/ \E v \in PredictVelocities : PredictAdd(v)
    \/ \E m \in {"PRESS", "JERK"} : Predict(m)

SpecPredict == InitPredict /\ [][NextPredict]_vars

\* the velocities recorded for the type asked about (none for a type the
\* tracker does not know) and their fit
AskedVelocities ==
    IF obs.asked \in Movements
    THEN app.fatigueTracker[obs.asked].velocities ELSE << >>

AskedBaseline ==
    IF obs.asked \in Movements
    THEN app.fatigueTracker[obs.asked].baselineVelocity ELSE NoVelocity

\* the fitted line is at or below the target velocity at rep index x
FitAtOrBelowTarget(x) ==
    LET r == Regression(AskedVelocities)
    IN  100 * (r.S * r.den4 + r.num2n * (2 * x - r.n - 1))
            <= AskedBaseline * (100 - TargetDrop) * r.n * r.den4

\* C26 as stated: null is returned exactly when fewer than 3 reps of the
\* type are recorded or the slope is not negative.
C26_NullIffFewOrRising ==
    obs.op = "predict" =>
        (obs.returned.isNull <=>
            \/ Len(AskedVelocities) < 3
            \/ Regression(AskedVelocities).num2n >= 0)

\* C26, amended: null is returned exactly when the type has no baseline
\* other than 0, fewer than 3 reps are recorded or the slope is not
\* negative; otherwise repsRemaining is the least whole number r >= 0 for
\* which the fitted line is at or below the target velocity at rep n + r.
C26_NullIffNoBaselineFewOrRising ==
    obs.op = "predict" =>
        LET n == Len(AskedVelocities)
            r == obs.returned.repsRemaining
        IN  /\ obs.returned.isNull <=>
                   \/ AskedBaseline \in {NoVelocity, 0}
                   \/ n < 3
                   \/ Regression(AskedVelocities).num2n >= 0
            /\ ~obs.returned.isNull =>
                   /\ r >= 0
                   /\ obs.returned.currentRep = n
                   /\ FitAtOrBelowTarget(n + r)
                   /\ r > 0 => ~FitAtOrBelowTarget(n + r - 1)

\* a prediction of two more reps after four reps that slow down, for a
\* tracker configured with a baseline of four reps
C26_Witness ==
    /\ obs.op = "predict"
    /\ obs.config.baselineReps = 4
    /\ obs.asked = "PRESS"
    /\ ~obs.returned.isNull
    /\ obs.returned.repsRemaining = 2
    /\ Len(AskedVelocities) = 4



-----------------------------------------------------------------------------
(* The starting flags of the second engine.                                *)

\* the number of starting flags that are set
StartFlags(st) ==
    (IF st.startedFromRack THEN 1 ELSE 0)
    + (IF st.startedBelowHip THEN 1 ELSE 0)
    + (IF st.startedFromOverhead THEN 1 ELSE 0)

\* C27: at most one of startedFromRack, startedBelowHip and
\* startedFromOverhead is set, and exactly one in MOVING and RETURNING.
C27_OneStartingPosture ==
    /\ StartFlags(state) <= 1
    /\ state.phase \in {"MOVING", "RETURNING"} => StartFlags(state) = 1

\* a snatch from overhead is waiting for the return below the hip: the
\* overhead start replaced an earlier start from below the hip
C27_Witness ==
    /\ state.phase = "RETURNING"
    /\ state.pendingMovement = "SNATCH"
    /\ state.startedFromOverhead
    /\ ~state.startedFromRack
    /\ ~state.startedBelowHip



-----------------------------------------------------------------------------
(* The second engine fed fast movements of the arm at in-band intervals,   *)
(* and the arm then held still: the clamp of the velocity and the decay of *)
(* the filtered velocity.                                                  *)

\* a frame 20 ms after the previous one
FastDt == 20

\* postures the arm is moved between, how often it is moved, and the
\* intervals of the frames
FastArms == {"SWING", "LOW", "REACH"}
MaxFastMoves == 3
FastDts == {FastDt, RegularDt}

\* consecutive frames with the arm held in one posture after which the
\* filtered velocity has settled
SettleFrames == 40

\* observer.  arm / moves: the posture being fed and the number of changes
\* of posture; still: consecutive frames, up to the last one, on which the
\* fed pose was the one of the frame before, counted up to SettleFrames;
\* clamped: calculateVelocity cut vy to the limit on the last frame.
FreshObsFast ==
    [op |-> "none", arm |-> "HOME", moves |-> 0, still |-> 0,
     clamped |-> FALSE]

InitFast ==
    /\ state = FreshState
    /\ calibrationData = FreshCalibrationData
    /\ result = NoResult
    /\ threw = FALSE
    /\ calSys = FreshCalSys
    /\ obs = FreshObsFast
    /\ app = NoApp
    /\ chain = NoChain

\* masterLoop: update on a pose of the left arm, dt after the previous call
FastFrame(arm, dt) ==
    /\ calibrationData.isCalibrated
    /\ state.lockedSide = "unknown" => arm = "SWING"
    /\ arm # obs.arm => obs.moves < MaxFastMoves
    /\ \E out \in {update(state, calibrationData, calSys, HeldPose(arm), dt)} :
       /\ EngineSteps(out)
       /\ obs' = [op |-> "frame",
                  arm |-> arm,
                  moves |-> obs.moves + (IF arm # obs.arm THEN 1 ELSE 0),
                  still |-> IF arm = obs.arm /\ out.seen.classified
                            THEN Min(obs.still + 1, SettleFrames) ELSE 0,
                  clamped |->
                      /\ out.seen.classified
                      /\ Abs(calculateVelocity(
                                 [Aged(state, dt) EXCEPT
                                    !.calibration = out.state.calibration],
                                 out.state.smoothedLandmarks["LEFT"].WRIST).vy)
                             = MAX_REALISTIC_VELOCITY]
    /\ UNCHANGED <<calSys, app, chain>>

NextFast ==
    \/ VelCalibrate
    \/ \E arm \in FastArms, dt \in FastDts : FastFrame(arm, dt)

SpecFast == InitFast /\ [][NextFast]_vars

\* C28: |smoothedVy| is at most MAX_REALISTIC_VELOCITY, and currentRepPeak
\* and the velocity of every rep event lie between 0 and
\* MAX_REALISTIC_VELOCITY.
C28_VelocityWithinLimit ==
    /\ Abs(state.smoothedVy) <= MAX_REALISTIC_VELOCITY
    /\ 0 <= state.currentRepPeak
    /\ state.currentRepPeak <= MAX_REALISTIC_VELOCITY
    /\ result.type # "null" =>
           0 <= result.velocity /\ result.velocity <= MAX_REALISTIC_VELOCITY

\* the velocity was cut to the limit on a frame of a rep whose peak is
\* above 2 m/s
C28_Witness ==
    /\ obs.clamped
    /\ state.phase = "MOVING"
    /\ state.currentRepPeak > 2000
    /\ Abs(state.smoothedVy) > 2000



\* C29 as stated: with the wrist held at one position and in-band
\* intervals the filtered velocity becomes exactly zero after a bounded
\* number of frames.  Then a held frame that leaves the engine as it was,
\* which every later held frame repeats, has a filtered velocity of zero.
C29_BecomesExactlyZero ==
    [][(obs'.still > 0 /\ state' = state) => state'.smoothedVy = 0]_vars

\* C29, amended: once the arm has been held at one position for
\* SettleFrames frames with in-band intervals, the magnitude of the
\* filtered velocity is below ZERO_BAND, and stays below it while the arm
\* is held; a held frame on which the smoothed wrist did not move does not
\* increase it.
C29_DecaysBelowDeadBand ==
    [][/\ obs'.still >= SettleFrames => Abs(state'.smoothedVy) < ZERO_BAND
       /\ (/\ obs'.still > 0
           /\ state'.smoothedLandmarks = state.smoothedLandmarks)
              => Abs(state'.smoothedVy) <= Abs(state.smoothedVy)]_vars

\* the arm has been held for SettleFrames frames after a movement whose
\* velocity was cut to the limit, and the filtered velocity is not zero
C29_Witness ==
    /\ obs.still = SettleFrames
    /\ obs.moves = MaxFastMoves
    /\ state.smoothedVy # 0
    /\ Abs(state.smoothedVy) < ZERO_BAND



-----------------------------------------------------------------------------
(* The first application with the calibrate button pressed while the test  *)
(* is running: recalibration of a calibrated system.                       *)

\* poses of the frames: standing at home, the left arm lowered, racked or locked out
PosesRecal == {Pose(a, "HOME") : a \in {"HOME", "LOW", "RACK", "LOCK"}}

\* recalibrations within one run
MaxRecal == 1

\* phases in which a repetition is under way
MidRep == {"MOVING", "RETURNING"}

\* calibrate button: app.calibrationSystem.setUserHeight(heightInches),
\* whatever the engine is doing
PressCalibrate(inches) ==
    /\ app.isTestRunning
    /\ calSys.phase = "COMPLETE"
    /\ calSys.userHeightInches # inches
    /\ calSys.framesCaptured < CALIBRATION_FRAMES + MaxRecal
    /\ calSys' = setUserHeight(calSys, inches)
    /\ obs' = [obs EXCEPT !.op = "calibrate", !.handlerCalls = 0]
    /\ UNCHANGED <<state, calibrationData, result, threw, app, chain>>

NextRecal ==
    \/ Calibrate1
    \/ ToggleTest
    \/ \E pose \in PosesRecal, now \in Clocks : Frame1(pose, now)
    \/ \E inches \in Heights : PressCalibrate(inches)

SpecRecal == Init1 /\ [][NextRecal]_vars

\* C30: no calibration capture is started while the engine is in MOVING or
\* RETURNING, and no frame is processed with the CalibrationSystem in
\* CAPTURING and the engine in MOVING or RETURNING.
C30_NoCaptureMidRep ==
    [][/\ (calSys.phase # "CAPTURING" /\ calSys'.phase = "CAPTURING")
              => state.phase \notin MidRep
       /\ (obs'.op = "frame" /\ calSys.phase = "CAPTURING")
              => state.phase \notin MidRep]_vars



-----------------------------------------------------------------------------
(* The reps that build the baseline, and the thresholds listed against the *)
(* drop, under SpecDrop.                                                   *)

\* C34: after each of the first baselineReps reps of a movement type, the
\* rep that sets the baseline included, dropFromBaseline is 0,
\* thresholdsCrossed is empty and fatigueZone is FRESH.
C34_BaselineRepsOnlyBuild ==
    \A m \in Movements :
        LET data == app.fatigueTracker[m]
        IN  data.repCount <= baselineReps =>
                /\ data.dropFromBaseline = 0
                /\ data.thresholdsCrossed = << >>
                /\ data.fatigueZone = "FRESH"

\* C40: for each movement type and each threshold t, a dropFromBaseline of
\* at least t has t in thresholdsCrossed; thresholdsCrossed is a prefix of
\* [10, 20, 30]; zone MODERATE has 10 listed; HIGH and CRITICAL have 20
\* listed.
C40_ThresholdsCoverDrop ==
    \A m \in Movements :
        LET data == app.fatigueTracker[m]
            crossed == data.thresholdsCrossed
            listed(t) == \E i \in 1..Len(crossed) : crossed[i] = t
        IN  /\ \A i \in 1..Len(alertThresholds) :
                   data.dropFromBaseline >= 100 * alertThresholds[i] =>
                       listed(alertThresholds[i])
            /\ Len(crossed) <= Len(alertThresholds)
            /\ crossed = SubSeq(alertThresholds, 1, Len(crossed))
            /\ data.fatigueZone = "MODERATE" => listed(10)
            /\ data.fatigueZone \in {"HIGH", "CRITICAL"} => listed(20)

\* a rep exactly 10% below the baseline: MODERATE with 10 listed
C40_Witness ==
    /\ obs.op = "addRep"
    /\ obs.fed["PRESS"] = <<2000, 2000, 2000, 1800>>
    /\ app.fatigueTracker["PRESS"].dropFromBaseline = 1000
    /\ app.fatigueTracker["PRESS"].fatigueZone = "MODERATE"
    /\ app.fatigueTracker["PRESS"].thresholdsCrossed = <<10>>



-----------------------------------------------------------------------------
(* The sets of the SetTimingTracker and the reps they hold, under          *)
(* SpecTiming.                                                             *)

\* C38: a set is never active while the rest timer is running, and an
\* active set has at least one rep.
C38_ActiveSetNotResting ==
    LET t == app.timingTracker
    IN  /\ ~(t.currentSet.isActive /\ t.restTimer.isRunning)
        /\ t.currentSet.isActive => t.currentSet.repCount >= 1

\* a second set is active after a rest that a rep ended, and reset() has
\* been called earlier in the run
C38_Witness ==
    /\ obs.op = "onRep"
    /\ obs.reps > obs.sinceReset
    /\ app.timingTracker.currentSet.isActive
    /\ app.timingTracker.currentSet.number = 2
    /\ ~app.timingTracker.restTimer.isRunning
    /\ app.timingTracker.restTimer.elapsed > 0

\* repCount of the history records, summed
RECURSIVE RepsRecorded(_)
RepsRecorded(history) ==
    IF history = << >> THEN 0
    ELSE Head(history).repCount + RepsRecorded(Tail(history))

\* C39: the onRep calls since the last reset() are the reps of the history
\* records plus those of the current set when it is active; session.setCount
\* is the length of the history and the records are numbered 1, 2, ... in
\* order.
C39_RepsConserved ==
    LET t == app.timingTracker
    IN  /\ obs.sinceReset
               = RepsRecorded(t.history)
                 + (IF t.currentSet.isActive THEN t.currentSet.repCount ELSE 0)
        /\ t.session.setCount = Len(t.history)
        /\ \A i \in 1..Len(t.history) : t.history[i].number = i

\* two sets are recorded, of 1 and 2 reps, and a rep of a third set is in
\* progress
C39_Witness ==
    /\ obs.op = "onRep"
    /\ obs.sinceReset = 4
    /\ Len(app.timingTracker.history) = 2
    /\ app.timingTracker.history[1].repCount = 1
    /\ app.timingTracker.history[2].repCount = 2
    /\ app.timingTracker.currentSet.isActive
    /\ app.timingTracker.currentSet.number = 3



-----------------------------------------------------------------------------
(* The sample window of the CalibrationSystem, under SpecCal.              *)

\* C36: setUserHeight starts an empty sample window; framesCaptured is the
\* number of stored samples and is at most CALIBRATION_FRAMES; a completed
\* calibration holds exactly CALIBRATION_FRAMES samples.
C36_FixedSampleWindow ==
    [][/\ obs'.op = "setUserHeight" =>
              /\ calSys'.framesCaptured = 0
              /\ calSys'.ankleToNosePixelSamples = << >>
       /\ calSys'.framesCaptured = Len(calSys'.ankleToNosePixelSamples)
       /\ calSys'.framesCaptured <= CALIBRATION_FRAMES
       /\ calSys'.phase = "COMPLETE" =>
              Len(calSys'.ankleToNosePixelSamples) = CALIBRATION_FRAMES]_vars



-----------------------------------------------------------------------------
(* The first application with the test paused and the calibration made     *)
(* after the engine has started tracking: the scale the engine converts    *)
(* pixels with.                                                            *)

\* poses of the frames: standing at home, the left arm lowered or racked
PosesSeed == {Pose(a, "HOME") : a \in {"HOME", "LOW", "RACK"}}

\* toggleTest(), PAUSE
PauseTest ==
    /\ app.isTestRunning
    /\ calSys = FreshCalSys
    /\ state.calibration # 0
    /\ app' = [app EXCEPT !.isTestRunning = ~@]
    /\ UNCHANGED <<state, calibrationData, result, threw, calSys, obs, chain>>

\* calibrate button and CALIBRATION_FRAMES frames standing at home while the
\* test is paused: masterLoop captures the frames and does not update the
\* engine
CalibratePaused ==
    /\ ~app.isTestRunning
    /\ calSys = FreshCalSys
    /\ state.calibration # 0
    /\ calSys' = CalibratedSys
    /\ obs' = [obs EXCEPT !.op = "calibrate", !.handlerCalls = 0]
    /\ UNCHANGED <<state, calibrationData, result, threw, app, chain>>

NextSeed ==
    \/ Calibrate1
    \/ ToggleTest
    \/ PauseTest
    \/ CalibratePaused
    \/ \E pose \in PosesSeed, now \in Clocks : Frame1(pose, now)
    \/ \E inches \in Heights : PressCalibrate(inches)

SpecSeed == Init1 /\ [][NextSeed]_vars

\* C31: on every frame on which the CalibrationSystem is COMPLETE and the
\* engine has a scale to compute the velocity with, state.calibration is
\* CalibrationSystem.getPixelsPerMeter().
C31_EngineUsesCalibratedScale ==
    [][(/\ obs'.op = "frame"
        /\ isComplete(calSys')
        /\ state'.calibration # 0) =>
           state'.calibration = getPixelsPerMeter(calSys')]_vars



-----------------------------------------------------------------------------
(* The SWING events of the first engine, under Spec1.                      *)

\* C32: a frame returns a SWING event only for a rep that reached swing
\* height and never had the wrist overhead (reachedOverhead not set).
C32_SwingNeverOverhead ==
    [][(obs'.op = "frame" /\ obs' # obs /\ result'.type = "SWING") =>
           /\ state.reachedSwingHeight
           /\ ~state.reachedOverhead]_vars



-----------------------------------------------------------------------------
(* The quality flag of the events of the second engine.                    *)

\* C35: a SNATCH event carries quality BAD_FORM exactly when the rep reached
\* overhead and never reached lockout; a SNATCH event of a rep that reached
\* lockout is returned from RETURNING without a quality flag; CLEAN, PRESS
\* and SWING events carry no quality flag.
C35_BadFormOnlyMissedLockout ==
    [][(obs'.op = "frame" /\ result'.type # "null") =>
           /\ result'.type = "SNATCH" =>
                  /\ result'.quality \in {"BAD_FORM", "null"}
                  /\ result'.quality = "BAD_FORM" <=>
                         (state.reachedOverhead /\ ~state.reachedLockout)
                  /\ result'.quality = "null" <=>
                         (state.phase = "RETURNING" /\ state.reachedLockout)
           /\ result'.type \in {"CLEAN", "PRESS", "SWING"} =>
                  result'.quality = "null"]_vars

\* a snatch that missed the lockout was counted as bad form on the frame
\* the wrist came back below the hip
C35_Witness ==
    /\ obs.op = "frame"
    /\ obs.arm = "LOW"
    /\ result.type = "SNATCH"
    /\ result.quality = "BAD_FORM"
    /\ state.phase = "SETTLING"



-----------------------------------------------------------------------------
(* The fold flag of the clean, second engine, under SpecHold.              *)

-----------------------------------------------------------------------------
(* The Svelte application: SnatchStateMachine                              *)
(* (src/svelte-app/src/lib/core/SnatchStateMachine.ts) driven by mainLoop  *)
(* of the page (src/unnamed/part_002 88-171).  Here state holds the fields *)
(* of the SnatchStateMachine, app the variables of the page and result the *)
(* event update returned.  Velocities are in mm/s, the wrist height in     *)
(* hundredths of the frame height, angles in degrees.                      *)

FLOOR_THRESHOLD == 75
ELBOW_STRAIGHT_ANGLE == 160
HIP_HINGE_ANGLE == 130
VELOCITY_THRESHOLD == 300
\* LOCKOUT_HOLD_FRAMES of the SnatchStateMachine
SNATCH_LOCKOUT_HOLD_FRAMES == 15
STATIC_FRAMES_THRESHOLD == 90
SET_START_VELOCITY == 500

\* frames counted past SNATCH_LOCKOUT_HOLD_FRAMES in LOCKOUT, and static
\* frames counted past STATIC_FRAMES_THRESHOLD
MaxLockoutPast == 1
MaxStaticPast == 1

FreshSnatch ==
    [currentPhase |-> "FOUNDATIONAL_START",
     previousPhase |-> "FOUNDATIONAL_START",
     lockoutHoldFrames |-> 0, staticFrames |-> 0, isSetActive |-> FALSE,
     peakVelocityThisRep |-> 0]

\* the page: calibration.getData() is set, and the metrics shown
FreshPage ==
    [calibrated |-> FALSE, reps |-> 0, peakVelocity |-> 0,
     currentPhase |-> "FOUNDATIONAL_START"]

NoEvent == [type |-> "null", phase |-> "null", peakVelocity |-> 0]

\* poses, given by the wrist height and by the angle between upper arm and
\* forearm and between torso and thigh that angleBetween computes: hinged
\* with the bell low, the pull, the arm locked out overhead, standing with
\* the arm down
SnatchPoses ==
    {[wristY |-> 80, elbowAngle |-> 170, hipAngle |-> 100],
     [wristY |-> 50, elbowAngle |-> 120, hipAngle |-> 160],
     [wristY |-> 10, elbowAngle |-> 175, hipAngle |-> 175],
     [wristY |-> 80, elbowAngle |-> 170, hipAngle |-> 175]}

\* calibration.toMeters(result.velocity.magnitude, ...): the magnitude
\* Math.sqrt(...) of the filtered velocity scaled by a positive factor,
\* never negative
Magnitudes == {0, 400, 700, 1500, 2500}

isNearFloor(pose) == pose.wristY > FLOOR_THRESHOLD
isElbowStraight(pose) == pose.elbowAngle > ELBOW_STRAIGHT_ANGLE
areHipsHinged(pose) == pose.hipAngle < HIP_HINGE_ANGLE

calculateGatingConditions(s, pose, velocity) ==
    [nearFloor |-> isNearFloor(pose),
     elbowStraight |-> isElbowStraight(pose),
     hipsHinged |-> areHipsHinged(pose),
     movingUp |-> velocity > VELOCITY_THRESHOLD,
     lockoutHold |-> s.lockoutHoldFrames >= SNATCH_LOCKOUT_HOLD_FRAMES]

\* determinePhase; late: Date.now() - this.phaseStartTime > 3000
determinePhase(s, c, velocity, late) ==
    CASE s.currentPhase = "FOUNDATIONAL_START" ->
             IF c.nearFloor /\ c.hipsHinged /\ c.movingUp
             THEN "HIKE_PASS" ELSE s.currentPhase
      [] s.currentPhase = "HIKE_PASS" ->
             IF ~c.nearFloor /\ c.movingUp /\ velocity > 1000
             THEN "ACCELERATION" ELSE s.currentPhase
      [] s.currentPhase = "ACCELERATION" ->
             IF velocity > 2000 /\ ~c.elbowStraight THEN "PUNCH_THROUGH"
             ELSE IF velocity < 500 THEN "BACKSWING"
             ELSE s.currentPhase
      [] s.currentPhase = "PUNCH_THROUGH" ->
             IF c.elbowStraight /\ velocity < 500
             THEN "LOCKOUT" ELSE s.currentPhase
      [] s.currentPhase = "LOCKOUT" ->
             IF c.lockoutHold /\ velocity < -300
             THEN "DROP" ELSE s.currentPhase
      [] s.currentPhase = "DROP" ->
             IF velocity < -1000 THEN "BACKSWING" ELSE s.currentPhase
      [] s.currentPhase = "BACKSWING" ->
             IF c.nearFloor /\ c.hipsHinged
             THEN "REDIRECT" ELSE s.currentPhase
      [] s.currentPhase = "REDIRECT" ->
             IF c.movingUp /\ velocity > 500 THEN "HIKE_PASS"
             ELSE IF late THEN "FOUNDATIONAL_START"
             ELSE s.currentPhase
      [] OTHER -> s.currentPhase

\* SnatchStateMachine.update(pose, velocity, timestamp): the machine after
\* the call and the event returned
SnatchUpdate(s, pose, velocity, late) ==
    IF ~s.isSetActive /\ velocity > SET_START_VELOCITY
    THEN [state |-> [s EXCEPT !.isSetActive = TRUE],
          event |-> [NoEvent EXCEPT !.type = "SET_START"]]
    ELSE
    LET static == s.isSetActive /\ velocity < 100
        s1 == IF static THEN [s EXCEPT !.staticFrames = @ + 1]
              ELSE [s EXCEPT !.staticFrames = 0]
    IN  IF /\ static
           /\ s1.staticFrames >= STATIC_FRAMES_THRESHOLD
           /\ isNearFloor(pose)
        THEN [state |-> [s1 EXCEPT !.isSetActive = FALSE,
                                   !.staticFrames = 0,
                                   !.currentPhase = "FOUNDATIONAL_START"],
              event |-> [NoEvent EXCEPT !.type = "SET_END"]]
        ELSE IF ~s1.isSetActive THEN [state |-> s1, event |-> NoEvent]
        ELSE
        LET s2 == [s1 EXCEPT !.peakVelocityThisRep = Max(@, velocity)]
            conditions == calculateGatingConditions(s2, pose, velocity)
            newPhase == determinePhase(s2, conditions, velocity, late)
            s3 == [s2 EXCEPT !.previousPhase = s2.currentPhase,
                             !.currentPhase = newPhase,
                             !.lockoutHoldFrames = 0]
        IN  IF newPhase # s2.currentPhase
            THEN IF s2.currentPhase = "LOCKOUT" /\ newPhase = "DROP"
                 THEN [state |-> [s3 EXCEPT !.peakVelocityThisRep = 0],
                       event |-> [type |-> "REP_COMPLETE",
                                  phase |-> newPhase,
                                  peakVelocity |-> s2.peakVelocityThisRep]]
                 ELSE [state |-> s3,
                       event |-> [NoEvent EXCEPT !.type = "PHASE_CHANGE",
                                                 !.phase = newPhase]]
            ELSE IF s2.currentPhase = "LOCKOUT"
            THEN [state |-> [s2 EXCEPT !.lockoutHoldFrames = @ + 1],
                  event |-> NoEvent]
            ELSE [state |-> s2, event |-> NoEvent]

InitSnatch ==
    /\ state = FreshSnatch
    /\ calibrationData = FreshCalibrationData
    /\ result = NoEvent
    /\ threw = FALSE
    /\ calSys = FreshCalSys
    /\ obs = [op |-> "none"]
    /\ app = FreshPage
    /\ chain = NoChain

\* startCalibration() and the frames mainLoop hands to the calibration
\* until calibration.finalize(): mainLoop returns before the state machine
\* on each of them
SnatchCalibrate ==
    /\ ~app.calibrated
    /\ app' = [app EXCEPT !.calibrated = TRUE]
    /\ obs' = [op |-> "calibrate"]
    /\ UNCHANGED <<state, calibrationData, result, threw, calSys, chain>>

\* mainLoop on a tracked frame after the calibration
SnatchFrame(pose, velocityMagnitude, late) ==
    /\ app.calibrated
    /\ \E out \in {SnatchUpdate(state, pose, velocityMagnitude, late)} :
       /\ out.state.lockoutHoldFrames
              <= SNATCH_LOCKOUT_HOLD_FRAMES + MaxLockoutPast
       /\ out.state.staticFrames <= STATIC_FRAMES_THRESHOLD + MaxStaticPast
       /\ state' = out.state
       /\ result' = out.event
       /\ app' = [app EXCEPT
                    !.currentPhase =
                        IF out.event.type = "PHASE_CHANGE"
                        THEN out.event.phase ELSE @,
                    !.reps = IF out.event.type = "REP_COMPLETE"
                             THEN @ + 1 ELSE @,
                    !.peakVelocity =
                        IF out.event.type = "REP_COMPLETE"
                        THEN Max(@, out.event.peakVelocity) ELSE @]
    /\ obs' = [op |-> "frame"]
    /\ UNCHANGED <<calibrationData, threw, calSys, chain>>

NextSnatch ==
    \/ SnatchCalibrate
    \/ \E pose \in SnatchPoses, v \in Magnitudes, late \in BOOLEAN :
           SnatchFrame(pose, v, late)

SpecSnatch == InitSnatch /\ [][NextSnatch]_vars

\* C33: from LOCKOUT held for at least LOCKOUT_HOLD_FRAMES frames, a frame
\* of the main loop can move the machine to DROP and return REP_COMPLETE,
\* which increases the rep counter.
C33_SnatchCanBeCounted ==
    (/\ state.currentPhase = "LOCKOUT"
     /\ state.lockoutHoldFrames >= SNATCH_LOCKOUT_HOLD_FRAMES) =>
        ENABLED (\E pose \in SnatchPoses, v \in Magnitudes, late \in BOOLEAN :
                     /\ SnatchFrame(pose, v, late)
                     /\ result'.type = "REP_COMPLETE")

=============================================================================
